---- MODULE Spec2Model ----
(***************************************************************************)
(* prompt-shield: the classification-and-decision pipeline.                *)
(*                                                                         *)
(*   detector.py  PromptDetector: analyze, _parse_response, hash_prompt,   *)
(*                create_log_entry                                         *)
(*   models.py    ShieldResult (pydantic validation, should_block/flag)    *)
(*   cache.py     InMemoryCache, RedisCache                                *)
(*   storage.py   AttackStorage: log_attack and the three queries          *)
(*   api.py       verify_api_key, check_prompt and the read routes         *)
(*   client.py    PromptShield.check in local mode                         *)
(*                                                                         *)
(* The specifications share the variables:                                 *)
(*   SpecParse   applies _parse_response / analyze to one oracle outcome   *)
(*   SpecCache   drives a cache backend with set / get / clock ticks       *)
(*   Spec        the /check handler and the read routes, run by            *)
(*               concurrent requests                                       *)
(*   SpecLive    Spec with the fairness the event loop gives               *)
(*   SpecStore   the attacks table under appends, days and queries         *)
(*   SpecClient  the client's local mode                                   *)
(*   SpecHash    hash_prompt called again and again on one text            *)
(*   SpecLoop    check_prompt as coroutines on one event loop thread       *)
(*                                                                         *)
(* Numbers: every JSON / Python number is kept in units of 1/10000, so     *)
(* 0.8 is 8000, 0.7999 is 7999 and 1.0 is 10000.                           *)
(***************************************************************************)
EXTENDS Integers, Sequences, FiniteSets, TLC

VARIABLES
    outcome,    \* SpecParse: what the oracle call gave (raw text, or an error)
    parsed,     \* SpecParse: what _parse_response returned or raised
    analyzed,   \* SpecParse: what analyze returned
    backend,    \* "memory" (InMemoryCache) or "redis" (RedisCache)
    max_size,   \* InMemoryCache._max_size
    cache,      \* InMemoryCache._cache: the dict, as its items in insertion order
    redis,      \* the Redis server's keys: key -> [data, expiry] or None
    now,        \* the clock, in seconds
    cache_ttl,  \* Settings.cache_ttl: the ttl every set is given
    lastSet,    \* history: one watched key and the most recent set call on it:
                \*   its verdict, its time, whether the backend stored it, and
                \*   whether no later set on another key could have evicted it
    lastGet,    \* history: the get call just made and what it returned
    pc,         \* per request: where the handler is
    req,        \* per request: the handler's locals
    attacks,    \* the rows of the attacks table, in insertion order
    api_key,    \* Settings.api_key: the shared secret, or None
    reply,      \* SpecStore: the storage query just made and what it returned
    client      \* SpecClient: a PromptShield.check call in local mode

vars == <<outcome, parsed, analyzed, backend, max_size, cache, redis, now,
          lastSet, lastGet, cache_ttl, pc, req, attacks, api_key, reply, client>>

parseVars == <<outcome, parsed, analyzed>>
cacheVars == <<backend, max_size, cache_ttl, cache, redis, now, lastSet, lastGet>>
sideVars  == <<api_key, reply, client>>
pipeVars  == <<pc, req, attacks, api_key, reply, client>>

(***************************************************************************)
(* Python and JSON values.  A value carries its type as its one field      *)
(* name, so that values of different types can sit in one set.             *)
(***************************************************************************)
None        == [none |-> TRUE]
JNum(n)     == [num |-> n]
JStr(s)     == [str |-> s]
JBool(b)    == [bool |-> b]
JNull       == [null |-> TRUE]
JObj(f)     == [obj |-> f]
JArr        == [arr |-> <<>>]
Member(m)   == [enum |-> m]

IsNone(v)   == "none" \in DOMAIN v
IsNum(v)    == "num"  \in DOMAIN v
IsStr(v)    == "str"  \in DOMAIN v
IsBool(v)   == "bool" \in DOMAIN v
IsNull(v)   == "null" \in DOMAIN v
IsObj(v)    == "obj"  \in DOMAIN v
IsArr(v)    == "arr"  \in DOMAIN v
IsMember(v) == "enum" \in DOMAIN v

\* A call's outcome: a returned value, or a raised exception.
Return(v)   == [val |-> v]
Raise(e)    == [exc |-> e]
IsExc(x)    == "exc" \in DOMAIN x

\* dict.get(key, default)
Get(d, key, default) == IF key \in DOMAIN d THEN d[key] ELSE default

\* bool(v): Python truthiness.
Truthy(v) ==
    CASE IsBool(v) -> v.bool
      [] IsNum(v)  -> v.num # 0
      [] IsStr(v)  -> v.str # ""
      [] IsObj(v)  -> DOMAIN v.obj # {}
      [] OTHER     -> FALSE

\* The strings float() accepts, among those the model uses.
NumericStrings == [s \in {"0.9"} |-> 9000]

\* float(v): ValueError on a non-numeric string, TypeError on None, a list or a dict.
PyFloat(v) ==
    CASE IsNum(v)  -> Return(v.num)
      [] IsBool(v) -> Return(IF v.bool THEN 10000 ELSE 0)
      [] IsStr(v)  -> IF v.str \in DOMAIN NumericStrings
                      THEN Return(NumericStrings[v.str])
                      ELSE Raise("ValueError")
      [] OTHER     -> Raise("TypeError")

(***************************************************************************)
(* models.py                                                               *)
(***************************************************************************)
\* AttackType: member name -> value.
AttackType ==
    [NONE                  |-> "none",
     PROMPT_EXTRACTION     |-> "prompt_extraction",
     PROMPT_INJECTION      |-> "prompt_injection",
     JAILBREAK             |-> "jailbreak",
     INSTRUCTION_OVERRIDE  |-> "instruction_override",
     ROLEPLAY_MANIPULATION |-> "roleplay_manipulation",
     UNKNOWN               |-> "unknown"]

\* AttackType(value): the member with that value.
AttackTypeOf(value) == CHOOSE m \in DOMAIN AttackType : AttackType[m] = value

\* Field(ge=0, le=1) of ShieldResult.confidence
ConfGe == 0
ConfLe == 10000

\* pydantic's bool validation (lax mode).
ValidBool(v) ==
    CASE IsBool(v) -> Return(v.bool)
      [] IsNum(v)  -> IF v.num = 0 THEN Return(FALSE)
                      ELSE IF v.num = 10000 THEN Return(TRUE)
                      ELSE Raise("ValidationError")
      [] IsStr(v)  -> IF v.str \in {"1", "on", "t", "true", "y", "yes"} THEN Return(TRUE)
                      ELSE IF v.str \in {"0", "off", "f", "false", "n", "no"} THEN Return(FALSE)
                      ELSE Raise("ValidationError")
      [] OTHER     -> Raise("ValidationError")

\* pydantic's validation of an AttackType field: a member, or a member's value.
ValidAttackType(v) ==
    CASE IsMember(v) -> Return(v.enum)
      [] IsStr(v)    -> IF \E m \in DOMAIN AttackType : AttackType[m] = v.str
                        THEN Return(AttackTypeOf(v.str))
                        ELSE Raise("ValidationError")
      [] OTHER       -> Raise("ValidationError")

\* confidence: float, without Field(ge=0, le=1).
MutConfidenceUnbounded(v) ==
    IF IsNum(v) THEN Return(v.num) ELSE Raise("ValidationError")

\* pydantic's validation of confidence: float = Field(ge=0, le=1)
ValidConfidence(v) ==
    IF IsNum(v) /\ v.num >= ConfGe /\ v.num <= ConfLe
    THEN Return(v.num) ELSE Raise("ValidationError")

\* pydantic's validation of reason: Optional[str]
ValidReason(v) ==
    IF IsStr(v) \/ IsNull(v) THEN Return(v) ELSE Raise("ValidationError")

\* ShieldResult(**kw): the validated model, or pydantic's ValidationError
\* (a ValueError).  kw holds the keywords given; attack_type, reason, flagged
\* and cached have defaults.
ShieldResult(kw) ==
    IF ~({"is_safe", "attack_detected", "confidence"} \subseteq DOMAIN kw)
    THEN Raise("ValidationError")
    ELSE
    LET is_safe         == ValidBool(kw.is_safe)
        attack_detected == ValidBool(kw.attack_detected)
        attack_type     == ValidAttackType(Get(kw, "attack_type", Member("NONE")))
        confidence      == ValidConfidence(kw.confidence)
        reason          == ValidReason(Get(kw, "reason", JNull))
        flagged         == ValidBool(Get(kw, "flagged", JBool(FALSE)))
        cached          == ValidBool(Get(kw, "cached", JBool(FALSE)))
    IN  IF \/ IsExc(is_safe) \/ IsExc(attack_detected) \/ IsExc(attack_type)
           \/ IsExc(confidence) \/ IsExc(reason) \/ IsExc(flagged) \/ IsExc(cached)
        THEN Raise("ValidationError")
        ELSE Return([is_safe         |-> is_safe.val,
                     attack_detected |-> attack_detected.val,
                     attack_type     |-> attack_type.val,
                     confidence      |-> confidence.val,
                     reason          |-> reason.val,
                     flagged         |-> flagged.val,
                     cached          |-> cached.val])

\* should_block with confidence > 0.8.
MutShouldBlockStrict(v) == v.attack_detected /\ v.confidence > 8000

\* ShieldResult.should_block
should_block(v) == v.attack_detected /\ v.confidence >= 8000

\* ShieldResult.should_flag
should_flag(v) == v.attack_detected /\ 4000 <= v.confidence /\ v.confidence < 8000

\* ShieldResult.model_dump_json(): the text of the JSON object, an enum as
\* its value.
model_dump_json(v) ==
    [text |-> <<[json |-> JObj(
         [is_safe         |-> JBool(v.is_safe),
          attack_detected |-> JBool(v.attack_detected),
          attack_type     |-> JStr(AttackType[v.attack_type]),
          confidence      |-> JNum(v.confidence),
          reason          |-> v.reason,
          flagged         |-> JBool(v.flagged),
          cached          |-> JBool(v.cached)])]>>]

(***************************************************************************)
(* detector.py: raw oracle text.  A text is a sequence of tokens: white    *)
(* space, the ``` fence, a word (a language tag), other prose, or the      *)
(* text of one JSON value.                                                 *)
(***************************************************************************)
Ws          == [ws |-> TRUE]
Fence       == [fence |-> TRUE]
Word(w)     == [word |-> w]
Prose       == [prose |-> TRUE]
Json(v)     == [json |-> v]
Text(toks)  == [text |-> toks]

IsWs(tok)    == "ws" \in DOMAIN tok
IsFence(tok) == "fence" \in DOMAIN tok
IsWord(tok)  == "word" \in DOMAIN tok
IsJson(tok)  == "json" \in DOMAIN tok

RECURSIVE lstrip(_)
lstrip(t) == IF Len(t) > 0 /\ IsWs(Head(t)) THEN lstrip(Tail(t)) ELSE t

RECURSIVE rstrip(_)
rstrip(t) == IF Len(t) > 0 /\ IsWs(t[Len(t)]) THEN rstrip(SubSeq(t, 1, Len(t) - 1)) ELSE t

\* str.strip()
strip(t) == rstrip(lstrip(t))

\* t.startswith("```")
StartsWithFence(t) == Len(t) > 0 /\ IsFence(t[1])

\* t.split("```")[1], for a t that starts with the fence: what lies between
\* the first fence and the next one (or the end).
SplitFence1(t) ==
    LET rest   == Tail(t)
        fences == {i \in 1..Len(rest) : IsFence(rest[i])}
        stop   == IF fences = {} THEN Len(rest) + 1
                  ELSE CHOOSE i \in fences : \A j \in fences : i <= j
    IN  SubSeq(rest, 1, stop - 1)

\* t.startswith("json")
StartsWithJson(t) == Len(t) > 0 /\ IsWord(t[1]) /\ t[1].word = "json"

\* json.loads(t): the value of a text that is exactly one JSON value.
json_loads(t) ==
    IF Len(t) = 1 /\ IsJson(t[1]) THEN Return(t[1].json) ELSE Raise("JSONDecodeError")

\* Lines 178-183 of _parse_response: the clean-up before json.loads.
CleanResponse(t) ==
    LET s1 == strip(t)
        s2 == IF StartsWithFence(s1)
              THEN LET inner == SplitFence1(s1)
                   IN  IF StartsWithJson(inner) THEN Tail(inner) ELSE inner
              ELSE s1
    IN  strip(s2)

\* type_map of _parse_response: type string -> AttackType member.
type_map ==
    [prompt_extraction     |-> "PROMPT_EXTRACTION",
     prompt_injection      |-> "PROMPT_INJECTION",
     jailbreak             |-> "JAILBREAK",
     instruction_override  |-> "INSTRUCTION_OVERRIDE",
     roleplay_manipulation |-> "ROLEPLAY_MANIPULATION",
     none                  |-> "NONE"]

\* type_map.get(attack_type_str, AttackType.UNKNOWN): a list or a dict is
\* unhashable (TypeError); any other key that is not in the table is UNKNOWN.
TypeMapGet(v) ==
    CASE IsObj(v) \/ IsArr(v) -> Raise("TypeError")
      [] IsStr(v)             -> IF v.str \in DOMAIN type_map
                                 THEN Return(type_map[v.str]) ELSE Return("UNKNOWN")
      [] OTHER                -> Return("UNKNOWN")

\* is_safe = not attack_detected or confidence < 0.8
MutIsSafeInclusive(attack_detected, confidence) ==
    ~Truthy(attack_detected) \/ confidence <= 8000

DecideIsSafe(attack_detected, confidence) ==
    ~Truthy(attack_detected) \/ confidence < 8000

\* flagged = attack_detected and 0.4 <= confidence < 0.8
\* (Python's `and` gives its left operand when that is falsy)
DecideFlagged(attack_detected, confidence) ==
    IF Truthy(attack_detected)
    THEN JBool(4000 <= confidence /\ confidence < 8000)
    ELSE attack_detected

\* The result of the except branch of _parse_response.
ParseErrorResult ==
    ShieldResult([is_safe         |-> JBool(TRUE),
                  attack_detected |-> JBool(FALSE),
                  attack_type     |-> Member("UNKNOWN"),
                  confidence      |-> JNum(0),
                  reason          |-> JStr("Parse error"),
                  flagged         |-> JBool(TRUE)])

\* except (json.JSONDecodeError, KeyError, ValueError): pydantic's
\* ValidationError is a ValueError.
ParseCatches(e) == e \in {"JSONDecodeError", "KeyError", "ValueError", "ValidationError"}

\* Lines 187-214 of _parse_response, on the loaded data; what it returns or
\* raises inside the try block.
ParseData(data) ==
    IF ~IsObj(data) THEN Raise("AttributeError")      \* data.get on a non-dict
    ELSE
    LET attack_detected == Get(data.obj, "attack", JBool(FALSE))
        confidence      == PyFloat(Get(data.obj, "confidence", JNum(0)))
        attack_type_str == Get(data.obj, "type", JStr("none"))
        reason          == Get(data.obj, "reason", JStr(""))
        attack_type     == TypeMapGet(attack_type_str)
    IN  IF IsExc(confidence) THEN confidence
        ELSE IF IsExc(attack_type) THEN attack_type
        ELSE ShieldResult(
               [is_safe         |-> JBool(DecideIsSafe(attack_detected, confidence.val)),
                attack_detected |-> attack_detected,
                attack_type     |-> Member(attack_type.val),
                confidence      |-> JNum(confidence.val),
                reason          |-> reason,
                flagged         |-> DecideFlagged(attack_detected, confidence.val)])

\* PromptDetector._parse_response(response): the ShieldResult returned, or
\* the exception that escapes (one the except clause does not name).
parse_response(response) ==
    IF IsNone(response) THEN Raise("AttributeError")  \* None.strip()
    ELSE
    LET loaded == json_loads(CleanResponse(response.text))
        tried  == IF IsExc(loaded) THEN loaded ELSE ParseData(loaded.val)
    IN  IF IsExc(tried) /\ ParseCatches(tried.exc) THEN ParseErrorResult ELSE tried

\* The result of the except branch of analyze.
FailOpenResult ==
    ShieldResult([is_safe         |-> JBool(TRUE),
                  attack_detected |-> JBool(FALSE),
                  attack_type     |-> Member("UNKNOWN"),
                  confidence      |-> JNum(0),
                  reason          |-> JStr("Analysis error"),
                  flagged         |-> JBool(TRUE)])

\* PromptDetector.analyze, given what the provider call gave: `except
\* Exception` turns the provider's error, and any exception escaping
\* _parse_response, into the fail-open result.
MutAnalyzeNoExcept(oracle) ==
    IF IsExc(oracle) THEN oracle ELSE parse_response(oracle.val)

analyze(oracle) ==
    LET r == IF IsExc(oracle) THEN oracle ELSE parse_response(oracle.val)
    IN  IF IsExc(r) THEN FailOpenResult ELSE r

\* hashlib.sha256(prompt.encode()).hexdigest(), as 64 hex digits, for the
\* prompts of the model.
sha256_hexdigest(prompt) ==
    CASE prompt = <<>> ->
             <<14, 3, 11, 0, 12, 4, 4, 2, 9, 8, 15, 12, 1, 12, 1, 4, 9, 10, 15, 11, 15, 4, 12, 8, 9, 9, 6, 15, 11, 9, 2, 4,
               2, 7, 10, 14, 4, 1, 14, 4, 6, 4, 9, 11, 9, 3, 4, 12, 10, 4, 9, 5, 9, 9, 1, 11, 7, 8, 5, 2, 11, 8, 5, 5>>
      [] prompt = <<"h", "i">> ->
             <<8, 15, 4, 3, 4, 3, 4, 6, 6, 4, 8, 15, 6, 11, 9, 6, 13, 15, 8, 9, 13, 13, 10, 9, 0, 1, 12, 5, 1, 7, 6, 11,
               1, 0, 10, 6, 13, 8, 3, 9, 6, 1, 13, 13, 3, 12, 1, 10, 12, 8, 8, 11, 5, 9, 11, 2, 13, 12, 3, 2, 7, 10, 10, 4>>
      [] prompt = <<"D", "A", "N">> ->
             <<0, 12, 11, 3, 1, 5, 5, 7, 0, 6, 7, 8, 9, 11, 3, 6, 3, 13, 5, 1, 9, 15, 12, 0, 4, 4, 12, 5, 5, 11, 12, 1,
               7, 15, 13, 7, 5, 10, 14, 8, 13, 13, 5, 6, 8, 11, 15, 13, 15, 15, 9, 13, 11, 15, 15, 12, 10, 8, 10, 10, 12, 8, 3, 3>>

\* [:16] of hash_prompt
HashLen == 16

\* PromptDetector.hash_prompt
hash_prompt(prompt) == SubSeq(sha256_hexdigest(prompt), 1, HashLen)

\* Characters str.encode() cannot encode: the lone surrogates U+D800..U+DFFF,
\* which a Python str may hold.  Two of them stand for all.
LoneSurrogates == {"U+D800", "U+DFFF"}

\* The code points of the other characters used.
CodePoint == [c \in {"h", "i", "D", "A", "N"} |->
                 CASE c = "h" -> 104 [] c = "i" -> 105
                   [] c = "D" -> 68  [] c = "A" -> 65 [] c = "N" -> 78]

\* prompt.encode(): the UTF-8 bytes, one per ASCII character, or the
\* UnicodeEncodeError raised on a lone surrogate.
encode(prompt) ==
    IF \E k \in 1..Len(prompt) : prompt[k] \in LoneSurrogates
    THEN Raise("UnicodeEncodeError")
    ELSE Return([k \in 1..Len(prompt) |-> CodePoint[prompt[k]]])

\* A call of PromptDetector.hash_prompt: the fingerprint returned, or the
\* exception of prompt.encode().
hash_prompt_call(prompt) ==
    IF IsExc(encode(prompt)) THEN encode(prompt) ELSE Return(hash_prompt(prompt))

\* [:200] of create_log_entry
PreviewLen == 200

\* prompt[:200]
Preview(prompt) ==
    SubSeq(prompt, 1, IF Len(prompt) < PreviewLen THEN Len(prompt) ELSE PreviewLen)

\* PromptDetector.create_log_entry
create_log_entry(prompt, result, utcnow) ==
    [timestamp      |-> utcnow,
     prompt_hash    |-> hash_prompt(prompt),
     prompt_preview |-> Preview(prompt),
     attack_type    |-> result.attack_type,
     confidence     |-> result.confidence,
     reason         |-> result.reason]

\* A call of PromptDetector.create_log_entry: the entry, or the exception
\* of the hash_prompt it calls.
create_log_entry_call(prompt, result, utcnow) ==
    IF IsExc(hash_prompt_call(prompt)) THEN hash_prompt_call(prompt)
    ELSE Return(create_log_entry(prompt, result, utcnow))

(***************************************************************************)
(* cache.py                                                                *)
(***************************************************************************)
\* The index of `key` in the dict's items, 0 when it is not a key.
IndexOf(c, key) ==
    IF \E i \in 1..Len(c) : c[i].key = key
    THEN CHOOSE i \in 1..Len(c) : c[i].key = key
    ELSE 0

\* What get does with the stored JSON text, in both backends:
\* ShieldResult(**json.loads(data)), then result.cached = True.
MutLoadCachedUnmarked(data) ==
    LET loaded == json_loads(data.text)
    IN  IF IsExc(loaded) THEN loaded
        ELSE IF ~IsObj(loaded.val) THEN Raise("TypeError")
        ELSE ShieldResult(loaded.val.obj)

LoadCached(data) ==
    LET loaded == json_loads(data.text)
        result == IF IsExc(loaded) THEN loaded
                  ELSE IF ~IsObj(loaded.val) THEN Raise("TypeError")
                  ELSE ShieldResult(loaded.val.obj)
    IN  IF IsExc(result) THEN result
        ELSE Return([result.val EXCEPT !.cached = TRUE])

\* InMemoryCache.get: the cached result, or None.
InMemoryCache_get(c, key) ==
    IF IndexOf(c, key) # 0 THEN LoadCached(c[IndexOf(c, key)].data) ELSE Return(None)

\* self._max_size // 10
EvictDivisor == 10

\* InMemoryCache.set: the dict afterwards.  ttl is not used.
MutSetDropsWhenFull(c, max, key, result, ttl) ==
    LET n    == IF max \div EvictDivisor < Len(c) THEN max \div EvictDivisor ELSE Len(c)
        kept == IF Len(c) >= max THEN SubSeq(c, n + 1, Len(c)) ELSE c
        item == [key |-> key, data |-> model_dump_json(result)]
    IN  IF Len(c) >= max THEN kept
        ELSE IF IndexOf(kept, key) # 0
        THEN [kept EXCEPT ![IndexOf(kept, key)] = item]
        ELSE Append(kept, item)

InMemoryCache_set(c, max, key, result, ttl) ==
    LET n    == IF max \div EvictDivisor < Len(c) THEN max \div EvictDivisor ELSE Len(c)
        kept == IF Len(c) >= max THEN SubSeq(c, n + 1, Len(c)) ELSE c
        item == [key |-> key, data |-> model_dump_json(result)]
    IN  IF IndexOf(kept, key) # 0
        THEN [kept EXCEPT ![IndexOf(kept, key)] = item]
        ELSE Append(kept, item)

\* The Redis server: GET of a key that has not expired.
RedisServerGet(store, key, t) ==
    IF ~IsNone(store[key]) /\ t < store[key].expiry THEN store[key].data ELSE None

\* The Redis server: the keys left once those that expire by time t are dropped.
RedisServerExpire(store, t) ==
    [k \in DOMAIN store |->
        IF ~IsNone(store[k]) /\ t < store[k].expiry THEN store[k] ELSE None]

\* The Redis server: SETEX key ttl data.
RedisServerSetex(store, key, ttl, data, t) ==
    [store EXCEPT ![key] = [data |-> data, expiry |-> t + ttl]]

\* RedisCache.get: any exception (the connection, the stored data) gives None.
MutRedisGetRaises(store, key, t, fail) ==
    IF fail THEN Raise("ConnectionError")
    ELSE LET data == RedisServerGet(store, key, t)
         IN  IF IsNone(data) THEN Return(None) ELSE LoadCached(data)

RedisCache_get(store, key, t, fail) ==
    IF fail THEN Return(None)
    ELSE LET data   == RedisServerGet(store, key, t)
             result == IF IsNone(data) THEN Return(None) ELSE LoadCached(data)
         IN  IF IsExc(result) THEN Return(None) ELSE result

\* RedisCache.set: the server's keys afterwards; an exception is logged and
\* swallowed.
MutRedisSetRaises(store, key, result, ttl, t, fail) ==
    IF fail THEN Raise("ConnectionError")
    ELSE Return(RedisServerSetex(store, key, ttl, model_dump_json(result), t))

RedisCache_set(store, key, result, ttl, t, fail) ==
    IF fail THEN Return(store)
    ELSE Return(RedisServerSetex(store, key, ttl, model_dump_json(result), t))

\* cache.get(key) on the configured backend.  Only the Redis backend talks
\* to a server that can fail.
cache_get(key, fail) ==
    IF backend = "redis"
    THEN RedisCache_get(redis, key, now, fail)
    ELSE InMemoryCache_get(cache, key)

\* cache.set(key, result, ttl) on the configured backend: the new cache and
\* redis, or the exception raised.
cache_set(key, result, ttl, fail) ==
    IF backend = "redis"
    THEN LET done == RedisCache_set(redis, key, result, ttl, now, fail)
         IN  IF IsExc(done) THEN done ELSE Return([cache |-> cache, redis |-> done.val])
    ELSE Return([cache |-> InMemoryCache_set(cache, max_size, key, result, ttl),
                 redis |-> redis])

\* Which failures a backend call can meet.
Failures == IF backend = "redis" THEN BOOLEAN ELSE {FALSE}

(***************************************************************************)
(* storage.py                                                              *)
(***************************************************************************)
\* log_attack with INSERT OR REPLACE on the fingerprint: a row of the same
\* prompt_hash is overwritten.
MutLogAttackReplaces(rows, log, t, fail) ==
    IF fail THEN Return(rows)
    ELSE LET row == [id             |-> Len(rows) + 1,
                     timestamp      |-> log.timestamp,
                     prompt_hash    |-> log.prompt_hash,
                     prompt_preview |-> log.prompt_preview,
                     attack_type    |-> AttackType[log.attack_type],
                     confidence     |-> log.confidence,
                     reason         |-> log.reason,
                     created_at     |-> t]
         IN  IF \E i \in 1..Len(rows) : rows[i].prompt_hash = log.prompt_hash
             THEN Return([i \in 1..Len(rows) |->
                            IF rows[i].prompt_hash = log.prompt_hash
                            THEN [row EXCEPT !.id = i] ELSE rows[i]])
             ELSE Return(Append(rows, row))

\* AttackStorage.log_attack: the rows of the attacks table afterwards.  A
\* failure of the database is logged and swallowed.  id is AUTOINCREMENT and
\* no row is ever deleted; created_at is the database's CURRENT_TIMESTAMP.
log_attack(rows, log, t, fail) ==
    IF fail THEN Return(rows)
    ELSE Return(Append(rows, [id             |-> Len(rows) + 1,
                              timestamp      |-> log.timestamp,
                              prompt_hash    |-> log.prompt_hash,
                              prompt_preview |-> log.prompt_preview,
                              attack_type    |-> AttackType[log.attack_type],
                              confidence     |-> log.confidence,
                              reason         |-> log.reason,
                              created_at     |-> t]))

\* timedelta(days=1), in the clock's seconds.
SecondsPerDay == 86400

\* since = (datetime.utcnow() - timedelta(days=days)).isoformat().  A
\* timestamp is kept as the number of seconds it denotes: isoformat strings
\* of one format compare as their times do.
Since(days, t) == t - days * SecondsPerDay

\* WHERE timestamp >= ?: the indices of the rows in the window.
InWindow(rows, since) == {i \in 1..Len(rows) : rows[i].timestamp >= since}

\* The high-confidence threshold of get_stats: confidence >= 0.8
HighConfidence == 8000

\* get_stats with WHERE timestamp > ? in place of >=.
MutStatsStrictWindow(rows, days, t, fail) ==
    IF fail THEN Raise("OperationalError")
    ELSE
    LET win   == {i \in 1..Len(rows) : rows[i].timestamp > Since(days, t)}
        types == {rows[i].attack_type : i \in win}
    IN  Return([period_days            |-> days,
                total_attacks          |-> Cardinality(win),
                high_confidence_attacks |->
                    Cardinality({i \in win : rows[i].confidence >= HighConfidence}),
                by_type                |->
                    [ty \in types |-> Cardinality({i \in win : rows[i].attack_type = ty})]])

\* AttackStorage.get_stats: the dict returned, or the database's error.
get_stats(rows, days, t, fail) ==
    IF fail THEN Raise("OperationalError")
    ELSE
    LET win   == InWindow(rows, Since(days, t))
        types == {rows[i].attack_type : i \in win}
    IN  Return([period_days            |-> days,
                total_attacks          |-> Cardinality(win),
                high_confidence_attacks |->
                    Cardinality({i \in win : rows[i].confidence >= HighConfidence}),
                by_type                |->
                    [ty \in types |-> Cardinality({i \in win : rows[i].attack_type = ty})]])

\* How SQLite orders rows that tie on the ORDER BY key: the query does not
\* say, so both the insertion order and its reverse are outcomes.
TieOrders == {"first", "last"}

\* Row i comes before row j in ORDER BY key DESC, ties broken by `tie`.
Before(key, tie, i, j) ==
    \/ key[i] > key[j]
    \/ key[i] = key[j] /\ (IF tie = "first" THEN i < j ELSE i > j)

\* The indices of `among` in ORDER BY key DESC.
RECURSIVE OrderDesc(_, _, _)
OrderDesc(key, tie, among) ==
    IF among = {} THEN <<>>
    ELSE LET top == CHOOSE i \in among : \A j \in among \ {i} : Before(key, tie, i, j)
         IN  <<top>> \o OrderDesc(key, tie, among \ {top})

\* LIMIT n of SQLite: a negative n is no limit.
Limit(seq, n) ==
    IF n < 0 \/ n >= Len(seq) THEN seq ELSE SubSeq(seq, 1, n)

\* get_recent_attacks with ORDER BY timestamp ASC.
MutRecentOldestFirst(rows, limit, tie, fail) ==
    IF fail THEN Raise("OperationalError")
    ELSE
    LET key   == [i \in 1..Len(rows) |-> 0 - rows[i].timestamp]
        order == Limit(OrderDesc(key, tie, 1..Len(rows)), limit)
    IN  Return([k \in 1..Len(order) |-> rows[order[k]]])

\* AttackStorage.get_recent_attacks: the list returned, or the database's error.
get_recent_attacks(rows, limit, tie, fail) ==
    IF fail THEN Raise("OperationalError")
    ELSE
    LET key   == [i \in 1..Len(rows) |-> rows[i].timestamp]
        order == Limit(OrderDesc(key, tie, 1..Len(rows)), limit)
    IN  Return([k \in 1..Len(order) |-> rows[order[k]]])

\* get_repeat_offenders without its WHERE timestamp >= ? clause.
MutOffendersAllTime(rows, min_count, days, t, tie, fail) ==
    IF fail THEN Raise("OperationalError")
    ELSE
    LET win      == 1..Len(rows)
        group(i) == {j \in win : rows[j].prompt_hash = rows[i].prompt_hash}
        firsts   == {i \in win : \A j \in group(i) : i <= j}
        count    == [i \in firsts |-> Cardinality(group(i))]
        maxc(i)  == CHOOSE c \in {rows[j].confidence : j \in group(i)} :
                        \A j \in group(i) : rows[j].confidence <= c
        having   == {i \in firsts : count[i] >= min_count}
        order    == OrderDesc(count, tie, having)
    IN  Return([k \in 1..Len(order) |->
                  LET i == order[k]
                      m == CHOOSE j \in group(i) : rows[j].confidence = maxc(i)
                  IN  [prompt_hash    |-> rows[i].prompt_hash,
                       prompt_preview |-> rows[m].prompt_preview,
                       count          |-> count[i],
                       max_confidence |-> maxc(i)]])

\* AttackStorage.get_repeat_offenders: the list returned, or the database's
\* error.  A group is named by the first of its rows; prompt_preview is a
\* bare column, taken from a row of the group that holds the MAX.
get_repeat_offenders(rows, min_count, days, t, tie, fail) ==
    IF fail THEN Raise("OperationalError")
    ELSE
    LET win      == InWindow(rows, Since(days, t))
        group(i) == {j \in win : rows[j].prompt_hash = rows[i].prompt_hash}
        firsts   == {i \in win : \A j \in group(i) : i <= j}
        count    == [i \in firsts |-> Cardinality(group(i))]
        maxc(i)  == CHOOSE c \in {rows[j].confidence : j \in group(i)} :
                        \A j \in group(i) : rows[j].confidence <= c
        having   == {i \in firsts : count[i] >= min_count}
        order    == OrderDesc(count, tie, having)
    IN  Return([k \in 1..Len(order) |->
                  LET i == order[k]
                      m == CHOOSE j \in group(i) : rows[j].confidence = maxc(i)
                  IN  [prompt_hash    |-> rows[i].prompt_hash,
                       prompt_preview |-> rows[m].prompt_preview,
                       count          |-> count[i],
                       max_confidence |-> maxc(i)]])

(***************************************************************************)
(* What the oracle can answer.                                             *)
(***************************************************************************)
Absent == [absent |-> TRUE]

\* The values tried for each key of the oracle's JSON object (Absent: the
\* key is missing).
AttackValues     == {Absent, JBool(TRUE), JBool(FALSE), JNull, JStr("yes"), JStr("no")}
ConfidenceValues == {Absent, JNull, JStr("0.9"), JStr("high")}
                    \cup {JNum(c) : c \in {-1, 0, 3990, 4000, 7999, 8000, 9900, 10000, 15000}}
TypeValues       == {Absent, JStr("jailbreak"), JStr("none"), JStr("bogus"), JNull, JArr}
ReasonValues     == {Absent, JStr("r"), JNull, JNum(5)}

\* The JSON object with the keys of f that are not Absent.
ObjectOf(f) == JObj([k \in {k \in DOMAIN f : f[k] # Absent} |-> f[k]])

Objects ==
    {ObjectOf(f) : f \in [attack : AttackValues, confidence : ConfidenceValues,
                          type : TypeValues, reason : ReasonValues]}

\* JSON values that are not objects.
NonObjects == {JArr, JNum(5), JStr("safe"), JNull, JBool(TRUE)}

\* A few payloads, to be wrapped in fences and white space.
SamplePayloads ==
    {JObj([attack |-> JBool(TRUE), type |-> JStr("jailbreak"),
           confidence |-> JNum(9900), reason |-> JStr("r")]),
     JObj([attack |-> JBool(FALSE), type |-> JStr("none"),
           confidence |-> JNum(9900), reason |-> JStr("r")]),
     JObj([attack |-> JBool(TRUE), type |-> JStr("prompt_injection"),
           confidence |-> JNum(4000)]),
     JArr}

\* The ways a payload comes wrapped.
Wrappings(p) ==
    {<<Json(p)>>,
     <<Ws, Json(p), Ws>>,
     <<Fence, Word("json"), Ws, Json(p), Ws, Fence>>,
     <<Ws, Fence, Word("json"), Ws, Json(p), Ws, Fence, Ws>>,
     <<Fence, Ws, Json(p), Ws, Fence>>,
     <<Fence, Word("python"), Ws, Json(p), Ws, Fence>>,
     <<Fence, Ws, Word("json"), Ws, Json(p), Ws, Fence>>,
     <<Fence, Word("json"), Ws, Json(p)>>,
     <<Fence, Word("json"), Ws, Json(p), Ws, Fence, Ws, Prose>>,
     <<Prose, Ws, Fence, Word("json"), Ws, Json(p), Ws, Fence>>,
     <<Json(p), Ws, Prose>>}

\* Texts that hold no JSON value.
NoPayloadTexts == {<<>>, <<Ws>>, <<Prose>>, <<Fence>>, <<Fence, Word("json"), Fence>>}

Responses ==
    {<<Json(p)>> : p \in Objects \cup NonObjects}
    \cup UNION {Wrappings(p) : p \in SamplePayloads}
    \cup NoPayloadTexts

\* What a provider call gives analyze: the completion's text, no text at
\* all (None), or an exception.
OracleOutcomes ==
    {Return(Text(t)) : t \in Responses} \cup {Return(None), Raise("OracleError")}

(***************************************************************************)
(* The idle values of each group of variables.                             *)
(***************************************************************************)
ParseIdle ==
    /\ outcome = None
    /\ parsed = None
    /\ analyzed = None

CacheIdle ==
    /\ backend = "memory"
    /\ max_size = 0
    /\ cache_ttl = 0
    /\ cache = <<>>
    /\ redis = <<>>
    /\ now = 0
    /\ lastSet = None
    /\ lastGet = None

PipeIdle ==
    /\ pc = <<>>
    /\ req = <<>>
    /\ attacks = <<>>
    /\ api_key = None
    /\ reply = None
    /\ client = None

(***************************************************************************)
(* SpecParse: _parse_response and analyze applied to one oracle outcome.   *)
(***************************************************************************)
InitParse ==
    /\ outcome \in OracleOutcomes
    /\ parsed = None
    /\ analyzed = None
    /\ CacheIdle
    /\ PipeIdle

\* self._parse_response(response), for a provider call that returned.
ParseOnce ==
    /\ parsed = None
    /\ ~IsExc(outcome)
    /\ parsed' = parse_response(outcome.val)
    /\ UNCHANGED <<outcome, analyzed, cacheVars, pipeVars>>

\* detector.analyze(user_input), given the provider call's outcome.
AnalyzeOnce ==
    /\ analyzed = None
    /\ analyzed' = analyze(outcome)
    /\ UNCHANGED <<outcome, parsed, cacheVars, pipeVars>>

NextParse == ParseOnce \/ AnalyzeOnce

SpecParse == InitParse /\ [][NextParse]_vars

\* The JSON object the oracle answered, when its answer is one: the record
\* the decision is applied to.
OutcomeData ==
    IF IsExc(outcome) \/ IsNone(outcome) THEN None
    ELSE IF IsNone(outcome.val) THEN None
    ELSE LET loaded == json_loads(CleanResponse(outcome.val.text))
         IN  IF ~IsExc(loaded) /\ IsObj(loaded.val) THEN loaded.val.obj ELSE None

HasKey(d, k) == ~IsNone(d) /\ k \in DOMAIN d

\* type and reason are of the documented types (a string; reason may be null), or missing.
WellTypedRest(d) ==
    /\ HasKey(d, "type") => IsStr(d.type)
    /\ HasKey(d, "reason") => IsStr(d.reason) \/ IsNull(d.reason)

\* An oracle record (attack, confidence): attack a boolean, confidence a number in [0, 1].
IsRecord(d) ==
    /\ HasKey(d, "attack") /\ IsBool(d.attack)
    /\ HasKey(d, "confidence") /\ IsNum(d.confidence)
    /\ d.confidence.num >= 0 /\ d.confidence.num <= 10000
    /\ WellTypedRest(d)

(* C1: the decision applied to an oracle record (attack, confidence) has
   three bands: attack=false is safe, not detected and not flagged whatever
   the confidence; attack=true with confidence >= 0.8 is not safe and
   detected; attack=true with 0.4 <= confidence < 0.8 is safe, detected and
   flagged; attack=true with confidence < 0.4 is safe, detected and not
   flagged. *)
Thm_C1 ==
    (IsRecord(OutcomeData) /\ ~IsNone(parsed)) =>
        /\ ~IsExc(parsed)
        /\ LET v == parsed.val
               a == OutcomeData.attack.bool
               c == OutcomeData.confidence.num
           IN  /\ ~a => v.is_safe /\ ~v.attack_detected /\ ~v.flagged
               /\ (a /\ c >= 8000) => ~v.is_safe /\ v.attack_detected
               /\ (a /\ 4000 <= c /\ c < 8000) =>
                      v.is_safe /\ v.attack_detected /\ v.flagged
               /\ (a /\ c < 4000) => v.is_safe /\ v.attack_detected /\ ~v.flagged
               /\ v.confidence = c

\* C1's case: an attack at exactly 0.8 has been parsed, and blocks.
Wit_C1 ==
    /\ IsRecord(OutcomeData)
    /\ OutcomeData.attack.bool /\ OutcomeData.confidence.num = 8000
    /\ ~IsNone(parsed) /\ ~IsExc(parsed)
    /\ ~parsed.val.is_safe

(* C10: a JSON object missing the confidence field (its other fields of the
   documented types, or missing) yields a result with category unknown and
   confidence 0.0, not an exception. *)
Cex_C10 ==
    (/\ ~IsNone(OutcomeData) /\ ~HasKey(OutcomeData, "confidence")
     /\ HasKey(OutcomeData, "attack") => IsBool(OutcomeData.attack)
     /\ WellTypedRest(OutcomeData)
     /\ ~IsNone(parsed)) =>
        /\ ~IsExc(parsed)
        /\ parsed.val.attack_type = "UNKNOWN"
        /\ parsed.val.confidence = 0

\* The oracle answered with a text (the provider call returned a string).
OutcomeIsText == ~IsNone(outcome) /\ ~IsExc(outcome) /\ ~IsNone(outcome.val)

\* The degraded record of a parse failure: attack=false, category unknown,
\* confidence 0.0.
IsDegraded(v) == ~v.attack_detected /\ v.attack_type = "UNKNOWN" /\ v.confidence = 0

(* C11: the response parser is total: for every raw oracle text parse returns
   a record rather than raising, and when no JSON object can be recovered
   from the text that record has attack=false, category=unknown and
   confidence=0.0. *)
Cex_C11 ==
    (OutcomeIsText /\ ~IsNone(parsed)) =>
        /\ ~IsExc(parsed)
        /\ IsNone(OutcomeData) => IsDegraded(parsed.val)

\* The text is a fenced block with a language tag around one JSON value,
\* with or without white space around the block and around the value.
FencedWithTag(t) ==
    LET s == strip(t)
    IN  /\ Len(s) >= 4
        /\ IsFence(s[1]) /\ IsWord(s[2]) /\ IsFence(s[Len(s)])
        /\ LET inner == strip(SubSeq(s, 3, Len(s) - 1))
           IN  Len(inner) = 1 /\ IsJson(inner[1])

\* The JSON value inside such a block.
FencedPayload(t) == strip(SubSeq(strip(t), 3, Len(strip(t)) - 1))[1].json

(* C12: for every valid JSON payload p and every language tag, the parser
   returns the same result for p wrapped in a fenced code block with that
   tag (with or without surrounding white space) as for p unwrapped. *)
Cex_C12 ==
    (OutcomeIsText /\ ~IsNone(parsed) /\ FencedWithTag(outcome.val.text)) =>
        parsed = parse_response(Text(<<Json(FencedPayload(outcome.val.text))>>))

\* C26: every verdict with attack_detected=false that did not come from an
\* oracle failure has flagged_for_review=false, the verdict _parse_response
\* produces after a structural parse failure included.
Cex_C26 ==
    (OutcomeIsText /\ ~IsNone(parsed) /\ ~IsExc(parsed)) =>
        (~parsed.val.attack_detected => ~parsed.val.flagged)

\* The verdicts made from the outcome so far: what _parse_response returned
\* and what analyze returned, the one check returns, stores and logs.
Verdicts ==
    (IF ~IsNone(parsed) /\ ~IsExc(parsed) THEN {parsed.val} ELSE {})
    \cup (IF ~IsNone(analyzed) /\ ~IsExc(analyzed) THEN {analyzed.val} ELSE {})

\* The oracle's object names a type that is a string outside type_map.
TypeOutsideTable ==
    /\ HasKey(OutcomeData, "type")
    /\ IsStr(OutcomeData.type)
    /\ OutcomeData.type.str \notin DOMAIN type_map

\* What _parse_response gives for the same object with a type of the table.
WithTableType ==
    parse_response(Text(<<Json(JObj([OutcomeData EXCEPT !.type = JStr("jailbreak")]))>>))

(* C27: every verdict has its confidence within [0,1]: an oracle confidence
   outside that range never appears in a verdict; and a type string outside
   the fixed lookup table maps to category unknown, the verdict's safe,
   attack_detected and flagged being those of the same object with a type
   of the table. *)
Thm_C27 ==
    /\ \A v \in Verdicts : v.confidence >= 0 /\ v.confidence <= 10000
    /\ (TypeOutsideTable /\ outcome.val.text = <<Json(JObj(OutcomeData))>> /\ ~IsNone(parsed)) =>
          /\ IsExc(parsed) <=> IsExc(WithTableType)
          /\ ~IsExc(parsed) =>
                /\ parsed.val.attack_type = "UNKNOWN"
                /\ parsed.val.is_safe = WithTableType.val.is_safe
                /\ parsed.val.attack_detected = WithTableType.val.attack_detected
                /\ parsed.val.flagged = WithTableType.val.flagged
                /\ parsed.val.confidence = WithTableType.val.confidence

\* The oracle said attack with confidence 1.5 and a type outside the table:
\* both verdicts are made, with confidence 0.0 and category unknown.
Wit_C27 ==
    /\ TypeOutsideTable
    /\ HasKey(OutcomeData, "confidence") /\ OutcomeData.confidence = JNum(15000)
    /\ HasKey(OutcomeData, "attack") /\ OutcomeData.attack = JBool(TRUE)
    /\ Cardinality(Verdicts) >= 1
    /\ ~IsNone(parsed) /\ ~IsNone(analyzed)
    /\ \A v \in Verdicts : v.confidence = 0 /\ v.attack_type = "UNKNOWN"

\* The verdicts check can return for the outcome: those made from it, and
\* each as a later request gets it back from the cache (model_dump_json on
\* set, ShieldResult(**json.loads(data)) and cached = True on get).
Returnable ==
    Verdicts \cup {LoadCached(model_dump_json(v)).val : v \in Verdicts}

\* The oracle failed, gave no JSON object, or gave one whose attack field is
\* a boolean.
AttackIsBoolean ==
    IsNone(OutcomeData) \/ (HasKey(OutcomeData, "attack") /\ IsBool(OutcomeData.attack))

\* The branch the documented client pattern takes (client.py, lines 25-33):
\* if result.is_safe / elif result.should_block / elif result.should_flag.
ClientBranch(v) ==
    IF v.is_safe THEN "process"
    ELSE IF should_block(v) THEN "block"
    ELSE IF should_flag(v) THEN "flag"
    ELSE "none"

(* C28: for every verdict the pipeline can return (fresh, cached,
   parse-failure or fail-open) built from an oracle record whose attack field
   is a boolean, is_safe is false exactly when should_block is true, and
   should_flag implies is_safe; so the documented client pattern takes its
   first branch or its second, never the third. *)
Thm_C28 ==
    AttackIsBoolean =>
        \A v \in Returnable :
            /\ ~v.is_safe <=> should_block(v)
            /\ should_flag(v) => v.is_safe
            /\ ClientBranch(v) \in {"process", "block"}

\* An attack at confidence 0.7999 came back from the cache: should_flag
\* holds, and the client pattern takes its first branch.
Wit_C28 ==
    /\ AttackIsBoolean
    /\ \E v \in Returnable :
          /\ v.cached
          /\ v.attack_detected /\ v.confidence = 7999
          /\ should_flag(v) /\ v.flagged
          /\ ClientBranch(v) = "process"

(***************************************************************************)
(* SpecCache: one cache backend driven by set, get and the clock.          *)
(***************************************************************************)
\* Bounds of the model.
MaxTime == 2
MaxTtl  == 2

\* The max_size values tried: below the eviction divisor, at it, and twice it.
MaxSizes == {1, 10, 20}

\* Two results of cache-miss runs, as the pipeline would store them.
BlockVerdict ==
    analyze(Return(Text(<<Json(JObj([attack |-> JBool(TRUE), type |-> JStr("jailbreak"),
                                     confidence |-> JNum(9900), reason |-> JStr("r")]))>>))).val

BenignVerdict ==
    analyze(Return(Text(<<Json(JObj([attack |-> JBool(FALSE), type |-> JStr("none"),
                                     confidence |-> JNum(9900)]))>>))).val

CacheValues == {BlockVerdict, BenignVerdict}

\* Keys are numbered.  With max_size = m the cache may start holding keys
\* 1..m-1, set in that order; the operations use the oldest key and two new ones.
OpKeys(m) == {1, m, m + 1}

\* The cache after set(1, v), ..., set(n, v) on an empty cache, n < max_size.
Prefilled(n, v) == [i \in 1..n |-> [key |-> i, data |-> model_dump_json(v)]]

InitCache ==
    /\ ParseIdle
    /\ PipeIdle
    /\ backend \in {"memory", "redis"}
    /\ max_size \in MaxSizes
    /\ cache_ttl \in 1..MaxTtl
    /\ now = 0
    /\ redis = [k \in OpKeys(max_size) |-> None]
    /\ backend = "redis" => max_size = 1     \* RedisCache has no max_size
    /\ \E n \in {0, max_size - 1}, f \in OpKeys(max_size) :
          /\ cache = Prefilled(n, BenignVerdict)
          /\ lastSet = [key  |-> f,
                        call |-> IF f <= n
                                 THEN [v |-> BenignVerdict, at |-> 0, stored |-> TRUE,
                                       alone |-> n = 1]
                                 ELSE None]
    /\ lastGet = None

\* await cache.set(key, v, cache_ttl)
CacheSetOp(key, v) ==
    \E fail \in Failures :
        LET after == cache_set(key, v, cache_ttl, fail)
        IN  /\ cache' = IF IsExc(after) THEN cache ELSE after.val.cache
            /\ redis' = IF IsExc(after) THEN redis ELSE after.val.redis
            /\ lastSet' = [lastSet EXCEPT !.call =
                             IF key = lastSet.key
                             THEN [v |-> v, at |-> now, stored |-> ~fail, alone |-> TRUE]
                             ELSE IF IsNone(@) THEN None
                             ELSE [@ EXCEPT !.alone = (backend = "redis")]]
            /\ lastGet' = None
            /\ UNCHANGED <<backend, max_size, cache_ttl, now, parseVars, pipeVars>>

\* await cache.get(key)
CacheGetOp(key) ==
    \E fail \in Failures :
        LET got == cache_get(key, fail)
        IN  /\ lastGet' = [key |-> key, ret |-> got, at |-> now, failed |-> fail,
                           set |-> IF key = lastSet.key THEN lastSet.call ELSE None]
            /\ UNCHANGED <<backend, max_size, cache_ttl, cache, redis, now, lastSet,
                           parseVars, pipeVars>>

\* A second passes; the Redis server drops the keys that expire.
Tick ==
    /\ now < MaxTime
    /\ now' = now + 1
    /\ redis' = RedisServerExpire(redis, now + 1)
    /\ lastGet' = None
    /\ UNCHANGED <<backend, max_size, cache_ttl, cache, lastSet, parseVars, pipeVars>>

NextCache ==
    \/ \E key \in OpKeys(max_size), v \in CacheValues : CacheSetOp(key, v)
    \/ \E key \in OpKeys(max_size) : CacheGetOp(key)
    \/ Tick

SpecCache == InitCache /\ [][NextCache]_vars

\* Equal in every field except cached.
EqExceptCached(a, b) == [a EXCEPT !.cached = FALSE] = [b EXCEPT !.cached = FALSE]

\* The last get was of a key whose last set the backend stored, before that
\* set's ttl elapsed, and the get met no backend failure.
GetWithinTtl ==
    /\ ~IsNone(lastGet)
    /\ ~IsNone(lastGet.set)
    /\ lastGet.set.stored
    /\ ~lastGet.failed
    /\ lastGet.at < lastGet.set.at + cache_ttl

\* The last get returned a result, not None and not an exception.
GetHit == ~IsNone(lastGet) /\ ~IsExc(lastGet.ret) /\ ~IsNone(lastGet.ret.val)

(* C3, as claimed: after set(f, v, ttl), every get(f) before ttl elapses
   and with no later set on f returns a verdict equal to v in every field
   except from_cache. *)
Cex_C3 ==
    GetWithinTtl => GetHit /\ EqExceptCached(lastGet.ret.val, lastGet.set.v)

(* C3, amended: after a set(f, v, ttl) that the backend stored, a get(f)
   before ttl elapses and with no later set on f never raises and returns
   either absent or a verdict equal to v in every field except from_cache,
   which is true; it returns the verdict on the local backend when no set
   on another key came in between (also when the set itself evicted), and
   on the networked backend whenever the get meets no failure. *)
Thm_C3 ==
    (/\ ~IsNone(lastGet) /\ ~IsNone(lastGet.set) /\ lastGet.set.stored
     /\ lastGet.at < lastGet.set.at + cache_ttl) =>
        /\ ~IsExc(lastGet.ret)
        /\ GetHit => /\ EqExceptCached(lastGet.ret.val, lastGet.set.v)
                     /\ lastGet.ret.val.cached
        /\ (backend = "memory" /\ lastGet.set.alone) => GetHit
        /\ (backend = "redis" /\ ~lastGet.failed) => GetHit

\* C3's case: a get right after a set that evicted (the cache was full)
\* returned the verdict just set.
Wit_C3 ==
    /\ backend = "memory" /\ max_size >= EvictDivisor
    /\ GetWithinTtl /\ GetHit /\ lastGet.set.alone
    /\ Len(cache) < max_size
    /\ lastGet.key = max_size + 1
    /\ lastGet.ret.val.attack_detected

(* C4: a cache entry is never returned after its expiry: once more than ttl
   seconds have passed since the last (stored) set(f, v, ttl), get(f)
   returns absent, on both backends. *)
Cex_C4 ==
    (/\ ~IsNone(lastGet) /\ ~IsNone(lastGet.set) /\ lastGet.set.stored
     /\ lastGet.at > lastGet.set.at + cache_ttl) => ~GetHit

(* C6: on the bounded local cache the number of stored entries never exceeds
   max_size, for every max_size >= 1 and every sequence of sets. *)
Cex_C6 == backend = "memory" => Len(cache) <= max_size

(***************************************************************************)
(* Spec: the /check handler (api.py, check_prompt), run by concurrent      *)
(* requests.  A handler is cut at its awaits: cache.get, detector.analyze, *)
(* cache.set.  With the in-memory backend get and set do not suspend, so   *)
(* the interleavings here include all those of the program.                *)
(***************************************************************************)
\* The requests in flight: two, enough for a hit after a miss and for two
\* misses of one prompt running together.
Requests == {1, 2}

\* The prompts sent: an empty one, a benign one, an attack.
Prompts == {<<>>, <<"h", "i">>, <<"D", "A", "N">>}

\* CheckRequest.prompt: Field(min_length=1, max_length=50000)
MinPromptLen == 1
MaxPromptLen == 50000

ValidPrompt(prompt) == Len(prompt) >= MinPromptLen /\ Len(prompt) <= MaxPromptLen

Hashes == {hash_prompt(p) : p \in {p \in Prompts : ValidPrompt(p)}}

\* InMemoryCache(max_size=10000): create_cache builds it with the default.
DefaultMaxSize == 10000

\* What the oracle answers in the pipeline: an attack, a benign verdict,
\* prose that does not parse, or an error.
PipeOutcomes ==
    {Return(Text(<<Json(JObj([attack |-> JBool(TRUE), type |-> JStr("jailbreak"),
                              confidence |-> JNum(9900), reason |-> JStr("r")]))>>)),
     Return(Text(<<Json(JObj([attack |-> JBool(FALSE), type |-> JStr("none"),
                              confidence |-> JNum(9900), reason |-> JStr("r")]))>>)),
     Return(Text(<<Prose>>)),
     Raise("OracleError")}

\* Settings.api_key: not set, or a secret.
ApiKeys == {None, JStr("secret")}

\* The X-API-Key headers sent: none, the secret, another value.  Without a
\* configured secret verify_api_key does not look at the header.
Headers == IF Truthy(api_key) THEN {None, api_key, JStr("wrong")} ELSE {None}

\* verify_api_key (lines 95-98): raises 401, or returns None.
MutVerifyOnlyWhenSent(x_api_key) ==
    IF Truthy(api_key) /\ ~IsNone(x_api_key) /\ x_api_key # api_key
    THEN Raise("HTTPException401") ELSE Return(None)

verify_api_key(x_api_key) ==
    IF Truthy(api_key) /\ x_api_key # api_key
    THEN Raise("HTTPException401") ELSE Return(None)

\* The defaults of the read routes' query parameters.
DefaultDays     == 7
DefaultLimit    == 100
DefaultMinCount == 3

\* The handler's locals before the request arrives.
NoLocals ==
    [endpoint      |-> "",      \* which route the request is for
     x_api_key     |-> None,    \* the X-API-Key header, None when missing
     prompt        |-> <<>>,
     prompt_hash   |-> <<>>,
     cached_result |-> None,    \* what cache.get returned
     oracle        |-> None,    \* what the provider call gave analyze
     result        |-> None,    \* what detector.analyze returned
     response      |-> None,    \* what the handler returned or raised
     get_failed    |-> FALSE,   \* history: the backend failed on cache.get
     set_failed    |-> FALSE,   \* history: the backend failed on cache.set
     log_failed    |-> FALSE]   \* history: the database failed on log_attack

Init ==
    /\ ParseIdle
    /\ backend \in {"memory", "redis"}
    /\ max_size = DefaultMaxSize
    /\ cache_ttl \in 1..MaxTtl
    /\ cache = <<>>
    /\ redis = [h \in Hashes |-> None]
    /\ now = 0
    /\ lastSet = None
    /\ lastGet = None
    /\ pc = [r \in Requests |-> "idle"]
    /\ req = [r \in Requests |-> NoLocals]
    /\ attacks = <<>>
    /\ api_key \in ApiKeys
    /\ reply = None
    /\ client = None

\* POST /check arrives: the verify_api_key dependency runs (401), then
\* CheckRequest is validated (422), then lines 129-130 compute the request
\* id and the hash.
Receive(r, x_api_key, prompt) ==
    /\ pc[r] = "idle"
    /\ r > 1 => pc[r - 1] # "idle"      \* requests are numbered as they arrive
    /\ LET auth == verify_api_key(x_api_key)
           got  == [req[r] EXCEPT !.endpoint = "check", !.x_api_key = x_api_key,
                                  !.prompt = prompt]
       IN  IF IsExc(auth)
           THEN /\ pc' = [pc EXCEPT ![r] = "unauthorized"]
                /\ req' = [req EXCEPT ![r] = [got EXCEPT !.response = auth]]
           ELSE IF ValidPrompt(prompt)
           THEN /\ pc' = [pc EXCEPT ![r] = "cache_get"]
                /\ req' = [req EXCEPT ![r] = [got EXCEPT !.prompt_hash = hash_prompt(prompt)]]
           ELSE /\ pc' = [pc EXCEPT ![r] = "invalid"]
                /\ req' = [req EXCEPT ![r] =
                              [got EXCEPT !.response = Raise("RequestValidationError")]]
    /\ UNCHANGED <<attacks, sideVars, cacheVars, parseVars>>

\* A GET of one of the three read routes: the verify_api_key dependency
\* runs (401), then the handler returns what the storage query gives; the
\* database's error is not caught.
ReadRoute(r, x_api_key, endpoint, answer) ==
    /\ pc[r] = "idle"
    /\ r > 1 => pc[r - 1] # "idle"
    /\ LET auth == verify_api_key(x_api_key)
           got  == [req[r] EXCEPT !.endpoint = endpoint, !.x_api_key = x_api_key]
       IN  IF IsExc(auth)
           THEN /\ pc' = [pc EXCEPT ![r] = "unauthorized"]
                /\ req' = [req EXCEPT ![r] = [got EXCEPT !.response = auth]]
           ELSE /\ pc' = [pc EXCEPT ![r] = IF IsExc(answer) THEN "error" ELSE "served"]
                /\ req' = [req EXCEPT ![r] = [got EXCEPT !.response = answer]]
    /\ UNCHANGED <<attacks, sideVars, cacheVars, parseVars>>

\* GET /stats (lines 156-159), with the default days.
Stats(r, x_api_key) ==
    \E fail \in BOOLEAN :
        ReadRoute(r, x_api_key, "stats", get_stats(attacks, DefaultDays, now, fail))

\* GET /attacks (lines 162-165), with the default limit.
Attacks(r, x_api_key) ==
    \E fail \in BOOLEAN, tie \in TieOrders :
        ReadRoute(r, x_api_key, "attacks",
                  get_recent_attacks(attacks, DefaultLimit, tie, fail))

\* GET /repeat-offenders (lines 168-171), with the default days and a
\* min_count of 1 or the default.
RepeatOffenders(r, x_api_key) ==
    \E fail \in BOOLEAN, tie \in TieOrders, min_count \in {1, DefaultMinCount} :
        ReadRoute(r, x_api_key, "repeat-offenders",
                  get_repeat_offenders(attacks, min_count, DefaultDays, now, tie, fail))

\* Lines 133-136: cached_result = await cache.get(prompt_hash); a hit is returned.
CacheGet(r) ==
    /\ pc[r] = "cache_get"
    /\ \E fail \in Failures :
          LET got == cache_get(req[r].prompt_hash, fail)
          IN  IF IsExc(got)
              THEN /\ pc' = [pc EXCEPT ![r] = "error"]
                   /\ req' = [req EXCEPT ![r].response = got, ![r].get_failed = fail]
              ELSE IF ~IsNone(got.val)
              THEN /\ pc' = [pc EXCEPT ![r] = "done"]
                   /\ req' = [req EXCEPT ![r].cached_result = got.val,
                                         ![r].response = got]
              ELSE /\ pc' = [pc EXCEPT ![r] = "analyze"]
                   /\ req' = [req EXCEPT ![r].get_failed = fail]
    /\ UNCHANGED <<attacks, sideVars, cacheVars, parseVars>>

\* Line 139 with a retry: after a failed provider call the call is made again.
MutAnalyzeRetries(r) ==
    /\ pc[r] = "analyze"
    /\ \E o \in PipeOutcomes :
          IF IsExc(o) /\ IsNone(req[r].oracle)
          THEN /\ pc' = pc
               /\ req' = [req EXCEPT ![r].oracle = o]
          ELSE /\ pc' = [pc EXCEPT ![r] = "cache_set"]
               /\ req' = [req EXCEPT ![r].oracle = o, ![r].result = analyze(o).val]
    /\ UNCHANGED <<attacks, sideVars, cacheVars, parseVars>>

\* Line 139: result = await detector.analyze(request.prompt)
AwaitAnalyze(r) ==
    /\ pc[r] = "analyze"
    /\ \E o \in PipeOutcomes :
          LET res == analyze(o)
          IN  IF IsExc(res)
              THEN /\ pc' = [pc EXCEPT ![r] = "error"]
                   /\ req' = [req EXCEPT ![r].oracle = o, ![r].response = res]
              ELSE /\ pc' = [pc EXCEPT ![r] = "cache_set"]
                   /\ req' = [req EXCEPT ![r].oracle = o, ![r].result = res.val]
    /\ UNCHANGED <<attacks, sideVars, cacheVars, parseVars>>

\* Line 142: await cache.set(prompt_hash, result, settings.cache_ttl)
CacheSet(r) ==
    /\ pc[r] = "cache_set"
    /\ \E fail \in Failures :
          LET after == cache_set(req[r].prompt_hash, req[r].result, cache_ttl, fail)
          IN  IF IsExc(after)
              THEN /\ pc' = [pc EXCEPT ![r] = "error"]
                   /\ req' = [req EXCEPT ![r].response = after, ![r].set_failed = fail]
                   /\ UNCHANGED <<cache, redis>>
              ELSE /\ pc' = [pc EXCEPT ![r] = "log"]
                   /\ req' = [req EXCEPT ![r].set_failed = fail]
                   /\ cache' = after.val.cache
                   /\ redis' = after.val.redis
    /\ UNCHANGED <<attacks, sideVars, backend, max_size, cache_ttl, now, lastSet, lastGet,
                   parseVars>>

\* Lines 145-153: an attack is logged; the result is returned.
MutLogAlways(r) ==
    /\ pc[r] = "log"
    /\ \E fail \in BOOLEAN :
          LET log   == create_log_entry(req[r].prompt, req[r].result, now)
              after == log_attack(attacks, log, now, fail)
          IN  /\ pc' = [pc EXCEPT ![r] = "done"]
              /\ req' = [req EXCEPT ![r].response = Return(req[r].result),
                                    ![r].log_failed = fail]
              /\ attacks' = after.val
    /\ UNCHANGED <<sideVars, cacheVars, parseVars>>

LogIfAttack(r) ==
    /\ pc[r] = "log"
    /\ \E fail \in IF req[r].result.attack_detected THEN BOOLEAN ELSE {FALSE} :
          LET log   == create_log_entry(req[r].prompt, req[r].result, now)
              after == IF req[r].result.attack_detected
                       THEN log_attack(attacks, log, now, fail)
                       ELSE Return(attacks)
          IN  IF IsExc(after)
              THEN /\ pc' = [pc EXCEPT ![r] = "error"]
                   /\ req' = [req EXCEPT ![r].response = after, ![r].log_failed = fail]
                   /\ UNCHANGED attacks
              ELSE /\ pc' = [pc EXCEPT ![r] = "done"]
                   /\ req' = [req EXCEPT ![r].response = Return(req[r].result),
                                         ![r].log_failed = fail]
                   /\ attacks' = after.val
    /\ UNCHANGED <<sideVars, cacheVars, parseVars>>

Next ==
    \/ \E r \in Requests, h \in Headers, prompt \in Prompts : Receive(r, h, prompt)
    \/ \E r \in Requests, h \in Headers : Stats(r, h)
    \/ \E r \in Requests, h \in Headers : Attacks(r, h)
    \/ \E r \in Requests, h \in Headers : RepeatOffenders(r, h)
    \/ \E r \in Requests : CacheGet(r)
    \/ \E r \in Requests : AwaitAnalyze(r)
    \/ \E r \in Requests : CacheSet(r)
    \/ \E r \in Requests : LogIfAttack(r)
    \/ Tick

Spec == Init /\ [][Next]_vars

\* Request r ran the pipeline (a cache miss) to its end.
MissDone(r) == pc[r] = "done" /\ IsNone(req[r].cached_result)

\* Request r was served from the cache.
HitDone(r) == pc[r] = "done" /\ ~IsNone(req[r].cached_result)

\* The JSON text the backend holds for `key`, or None.
StoredData(key) ==
    IF backend = "redis" THEN RedisServerGet(redis, key, now)
    ELSE IF IndexOf(cache, key) # 0 THEN cache[IndexOf(cache, key)].data
    ELSE None

\* Every JSON text the backend holds.
AllStored ==
    IF backend = "redis"
    THEN {redis[k].data : k \in {h \in DOMAIN redis : ~IsNone(redis[h])}}
    ELSE {cache[i].data : i \in 1..Len(cache)}

(* C2: whatever the input text, when the oracle call raises an error the
   check operation does not raise, and it returns a verdict with safe=true,
   attack_detected=false and flagged_for_review=true. *)
Thm_C2 ==
    \A r \in Requests :
        IsExc(req[r].oracle) =>
            /\ pc[r] \in {"cache_set", "log", "done"}
            /\ pc[r] = "done" =>
                  /\ ~IsExc(req[r].response)
                  /\ req[r].response.val.is_safe
                  /\ ~req[r].response.val.attack_detected
                  /\ req[r].response.val.flagged

\* C2's case: the oracle raised on the attack prompt and the request
\* was answered.
Wit_C2 ==
    \E r \in Requests :
        /\ IsExc(req[r].oracle)
        /\ req[r].prompt = <<"D", "A", "N">>
        /\ pc[r] = "done"
        /\ req[r].response.val.is_safe

\* C5, on states: a returned verdict has from_cache=true exactly when it
\* came from a hit; a verdict made by a miss has it false, and so has every
\* stored entry.
FromCacheIffHit ==
    /\ \A r \in Requests :
          /\ pc[r] = "done" => /\ ~IsExc(req[r].response)
                               /\ req[r].response.val.cached <=> HitDone(r)
          /\ ~IsNone(req[r].result) => ~req[r].result.cached
    /\ \A d \in AllStored :
          LET loaded == json_loads(d.text)
          IN  ~IsExc(loaded) /\ loaded.val.obj.cached = JBool(FALSE)

\* C5, on steps: a cache get leaves the stored entries as they were, and
\* the verdict it returns is the stored one but for from_cache.
GetFrame ==
    \A r \in Requests :
        (pc[r] = "cache_get" /\ pc'[r] # "cache_get") =>
            /\ cache' = cache /\ redis' = redis
            /\ pc'[r] = "done" =>
                  LET v == req'[r].response.val
                  IN  /\ v.cached
                      /\ model_dump_json([v EXCEPT !.cached = FALSE])
                            = StoredData(req[r].prompt_hash)

(* C5: a verdict returned by the check operation has from_cache=true if and
   only if it was served from a cache hit: a verdict created by a cache-miss
   run is returned and stored with from_cache=false, a verdict returned by
   cache get has from_cache=true, and get changes no other field and does
   not alter the stored entry. *)
Thm_C5 == []FromCacheIffHit /\ [][GetFrame]_vars

\* C5's case: a blocking verdict was served from the cache, marked, while the
\* stored entry stays unmarked.
Wit_C5 ==
    \E r \in Requests :
        /\ HitDone(r)
        /\ req[r].response.val.cached
        /\ ~req[r].response.val.is_safe
        /\ ~IsNone(StoredData(req[r].prompt_hash))

\* The requests that ran the pipeline to its end and detected an attack.
AttackRuns == {r \in Requests : MissDone(r) /\ req[r].result.attack_detected}

(* C7, as claimed: the number of attack log records always equals the
   number of cache-miss executions that detected an attack. *)
Cex_C7 == Len(attacks) = Cardinality(AttackRuns)

\* C7, on steps: only a cache-miss run that detected an attack appends, one
\* record, as it ends; it does unless the append fails.
LogFrame ==
    /\ attacks' # attacks =>
          \E r \in Requests :
              /\ pc[r] = "log" /\ pc'[r] = "done"
              /\ IsNone(req[r].cached_result)
              /\ req[r].result.attack_detected
              /\ Len(attacks') = Len(attacks) + 1
              /\ SubSeq(attacks', 1, Len(attacks)) = attacks
              /\ attacks'[Len(attacks')].prompt_hash = req[r].prompt_hash
    /\ \A r \in Requests :
          (/\ pc[r] = "log" /\ pc'[r] = "done"
           /\ req[r].result.attack_detected /\ ~req'[r].log_failed) =>
              Len(attacks') = Len(attacks) + 1

(* C7, amended: an attack log record is created exactly once per pipeline
   execution whose verdict has attack_detected=true and whose append does
   not fail, and never otherwise: a cache hit appends none, a verdict with
   attack_detected=false appends none, so the number of records equals the
   number of cache-miss executions that detected an attack and whose append
   succeeded. *)
Thm_C7 ==
    /\ [](Len(attacks) = Cardinality({r \in AttackRuns : ~req[r].log_failed}))
    /\ [][LogFrame]_vars

\* C7's case: an attack was logged once by the miss, and a later hit on the
\* same attack added no record.
Wit_C7 ==
    /\ Len(attacks) = 1
    /\ \E r, q \in Requests :
          /\ MissDone(r) /\ req[r].result.attack_detected
          /\ HitDone(q) /\ req[q].cached_result.attack_detected
          /\ req[q].prompt_hash = req[r].prompt_hash

(* C8: when the cache backend fails on get, the get raises nothing, its
   result is absent and the request goes on to the oracle classification,
   returning the verdict the oracle result yields. *)
Thm_C8 ==
    \A r \in Requests :
        req[r].get_failed =>
            /\ pc[r] \in {"analyze", "cache_set", "log", "done"}
            /\ IsNone(req[r].cached_result)
            /\ pc[r] = "done" => req[r].response = analyze(req[r].oracle)

\* C8's case: the get failed while the entry was stored, and the request
\* returned what the oracle said this time: benign, not the stored block.
Wit_C8 ==
    \E r \in Requests :
        /\ req[r].get_failed
        /\ pc[r] = "done"
        /\ req[r].response.val.is_safe /\ ~req[r].response.val.flagged
        /\ \E q \in Requests : MissDone(q) /\ q # r /\ ~req[q].result.is_safe
                                 /\ req[q].prompt_hash = req[r].prompt_hash

(* C9: when the cache write fails or the attack-log append fails, the check
   operation raises nothing and returns exactly the verdict it had already
   computed. *)
Thm_C9 ==
    \A r \in Requests :
        (req[r].set_failed \/ req[r].log_failed) =>
            /\ pc[r] \in {"log", "done"}
            /\ req[r].result = analyze(req[r].oracle).val
            /\ pc[r] = "done" => req[r].response = Return(req[r].result)

\* C9's case: both the cache write and the log append failed, and the
\* blocking verdict was returned.
Wit_C9 ==
    \E r \in Requests :
        /\ req[r].set_failed /\ req[r].log_failed
        /\ pc[r] = "done"
        /\ ~req[r].response.val.is_safe

\* Request r came with a header that is not the configured secret.
BadKey(r) == pc[r] # "idle" /\ Truthy(api_key) /\ req[r].x_api_key # api_key

\* C14, on states: such a request has ended in the authorization error, its
\* handler not entered.
Rejected ==
    \A r \in Requests :
        BadKey(r) =>
            /\ pc[r] = "unauthorized"
            /\ req[r].response = Raise("HTTPException401")
            /\ IsNone(req[r].cached_result) /\ IsNone(req[r].oracle) /\ IsNone(req[r].result)

\* C14, on steps: the step that rejects a request writes neither the cache
\* nor the attack store, and a rejected request takes no further step.
RejectFrame ==
    \A r \in Requests :
        /\ (pc[r] = "idle" /\ pc'[r] = "unauthorized") =>
              cache' = cache /\ redis' = redis /\ attacks' = attacks
        /\ pc[r] = "unauthorized" => pc'[r] = "unauthorized" /\ req'[r] = req[r]

(* C14: when a shared secret is configured, every check, stats,
   recent-attacks and repeat-offenders request whose header value differs
   from it (or is missing) ends in an authorization error before pipeline
   entry: it reads and writes neither the cache nor the attack store and
   invokes no oracle call. *)
Thm_C14 == []Rejected /\ [][RejectFrame]_vars

\* C14's case: with a secret configured, a check without the header and a
\* stats request with a wrong one were both rejected.
Wit_C14 ==
    /\ Truthy(api_key)
    /\ \E r, q \in Requests :
          /\ pc[r] = "unauthorized" /\ req[r].endpoint = "check"
          /\ IsNone(req[r].x_api_key)
          /\ pc[q] = "unauthorized" /\ req[q].endpoint = "stats"
          /\ req[q].x_api_key = JStr("wrong")

\* The rows of the attack store stay as they are, in their places: the store
\* after the step begins with the store before it.
RowsKept ==
    /\ Len(attacks') >= Len(attacks)
    /\ SubSeq(attacks', 1, Len(attacks)) = attacks

\* The step answers a stats, recent-attacks or repeat-offenders request.
ReadStep ==
    \E r \in Requests :
        /\ pc[r] = "idle"
        /\ pc'[r] \in {"served", "error", "unauthorized"}
        /\ req'[r].endpoint \in {"stats", "attacks", "repeat-offenders"}

\* C18: the attack log is append-only: over every sequence of check, stats,
\* recent and repeat_offenders requests each step keeps every record already
\* appended, unchanged and in its place, and a step of one of the three read
\* queries leaves the store exactly as it was.
Thm_C18 == [][RowsKept /\ (ReadStep => attacks' = attacks)]_vars

\* A check has appended a record and a recent-attacks request has then read
\* the store back, the record in its place.
Wit_C18 ==
    /\ Len(attacks) >= 1
    /\ attacks[1].id = 1
    /\ \E r \in Requests :
          /\ pc[r] = "served" /\ req[r].endpoint = "attacks"
          /\ req[r].response = Return(attacks)

\* Request r ran the pipeline to its end and its attack was logged.
Logged(r) ==
    /\ pc[r] = "done"
    /\ ~IsNone(req[r].result)
    /\ IsNone(req[r].cached_result)
    /\ req[r].result.attack_detected
    /\ ~req[r].log_failed

\* C19: every attack log record's text_preview is a bounded-length prefix of
\* the offending input and is never the full input text.
Cex_C19 ==
    \A r \in Requests : \A i \in 1..Len(attacks) :
        (Logged(r) /\ attacks[i].prompt_hash = req[r].prompt_hash) =>
            LET preview == attacks[i].prompt_preview
            IN  /\ Len(preview) <= PreviewLen
                /\ Len(preview) <= Len(req[r].prompt)
                /\ preview = SubSeq(req[r].prompt, 1, Len(preview))
                /\ preview # req[r].prompt

\* Request r's oracle call failed: analyze made the fail-open verdict.
OracleFailed(r) == IsExc(req[r].oracle) /\ ~IsNone(req[r].result)

\* C21: on an oracle failure during CLASSIFY the request performs no cache
\* write and no log append: the fail-open verdict is never stored in the
\* cache, and a later request for the same fingerprint is not served it.
Cex_C21 ==
    \A r \in Requests :
        OracleFailed(r) =>
            /\ model_dump_json(req[r].result) \notin AllStored
            /\ \A q \in Requests :
                  (HitDone(q) /\ req[q].prompt_hash = req[r].prompt_hash) =>
                      req[q].cached_result # [req[r].result EXCEPT !.cached = TRUE]

\* The order of the stages of check_prompt: from each stage, the next ones.
StageOrder ==
    [idle      |-> {"cache_get", "invalid", "unauthorized", "served", "error"},
     cache_get |-> {"analyze", "done"},
     analyze   |-> {"cache_set"},
     cache_set |-> {"log"},
     log       |-> {"done"}]

\* C22, on steps: a request moves from a stage to one that follows it and
\* never back; the oracle is called in the analyze stage only, once; the
\* step that ends a request by a cache hit writes nothing; the cache is
\* written by the cache_set stage only and the attack store by the log
\* stage after it.
Sequential ==
    \A r \in Requests :
        /\ pc'[r] # pc[r] => pc[r] \in DOMAIN StageOrder /\ pc'[r] \in StageOrder[pc[r]]
        /\ req'[r].oracle # req[r].oracle =>
              /\ pc[r] = "analyze" /\ pc'[r] = "cache_set"
              /\ IsNone(req[r].oracle)
        /\ (pc[r] = "cache_get" /\ pc'[r] = "done") =>
              /\ cache' = cache /\ redis' = redis /\ attacks' = attacks
              /\ IsNone(req'[r].oracle) /\ IsNone(req'[r].result)
        /\ pc'[r] = pc[r] => req'[r] = req[r]

\* The cache and the attack store are written by the stage that owns them.
WrittenInStage ==
    /\ (cache' # cache \/ (redis' # redis /\ now' = now)) =>
          \E r \in Requests : pc[r] = "cache_set" /\ pc'[r] = "log"
    /\ attacks' # attacks =>
          \E r \in Requests : pc[r] = "log" /\ pc'[r] = "done"

\* C22, on states: a request answered by a hit never called the oracle; one
\* answered by a miss called it, once, after the lookup said absent.
CalledOnceOnMiss ==
    \A r \in Requests :
        /\ HitDone(r) => IsNone(req[r].oracle) /\ IsNone(req[r].result)
        /\ (pc[r] \in {"cache_set", "log"} \/ MissDone(r)) =>
              /\ ~IsNone(req[r].oracle)
              /\ IsNone(req[r].cached_result)
              /\ req[r].result = analyze(req[r].oracle).val
        /\ pc[r] \in {"idle", "cache_get", "analyze"} => IsNone(req[r].oracle)

(* C22: within one request the stages are strictly sequential and
   unrepeated: the cache lookup precedes any oracle call, a cache hit
   invokes the oracle zero times and writes nothing, a cache miss invokes
   the oracle exactly once (no retry after a failure), and the cache write
   precedes the log append. *)
Thm_C22 == []CalledOnceOnMiss /\ [][Sequential /\ WrittenInStage]_vars

\* One request missed, its single oracle call failed and it ended with the
\* fail-open verdict; another was answered by a hit without an oracle call.
Wit_C22 ==
    \E r, q \in Requests :
        /\ MissDone(r) /\ IsExc(req[r].oracle)
        /\ HitDone(q) /\ IsNone(req[q].oracle)

\* The pipeline under the scheduling the event loop gives: a handler that
\* can take its next step takes it, so the cache lookup, the cache write
\* and the log append of a request are each weakly fair.  The step of the
\* analyze stage is the provider's answer arriving: _analyze_openai,
\* _analyze_openrouter and _analyze_anthropic wait for it in the executor
\* with no timeout argument and no asyncio.wait_for around the await, so
\* nothing in the handler makes that step happen and it gets no fairness.
SpecLive ==
    /\ Init
    /\ [][Next]_vars
    /\ \A r \in Requests :
          /\ WF_vars(CacheGet(r))
          /\ WF_vars(CacheSet(r))
          /\ WF_vars(LogIfAttack(r))

\* C23: every request with well-formed input eventually reaches DONE and
\* returns a verdict, also when the oracle call never responds.
Cex_C23 ==
    \A r \in Requests :
        (pc[r] = "cache_get") ~> (pc[r] = "done" /\ ~IsExc(req[r].response))

\* Request r has its verdict and is about to write it to the cache, or has
\* just written it and is not finished.
InFlightWithVerdict(r) == pc[r] \in {"cache_set", "log"}

\* The oracle treated r and q alike: it answered both with the same text,
\* unless it failed on one of the calls.
SameAnswerUnlessFailed(r, q) ==
    IsExc(req[r].oracle) \/ IsExc(req[q].oracle) \/ req[r].oracle = req[q].oracle

\* C25: for concurrent requests with the same text and an uncached
\* fingerprint, with the oracle allowed to fail on any individual call, all
\* cache writes for that fingerprint carry the same verdict.
Cex_C25 ==
    \A r, q \in Requests :
        (/\ InFlightWithVerdict(r) /\ InFlightWithVerdict(q)
         /\ req[r].prompt_hash = req[q].prompt_hash
         /\ SameAnswerUnlessFailed(r, q)) =>
            req[r].result = req[q].result

(***************************************************************************)
(* SpecStore: storage.py, the attacks table driven by appends, the clock   *)
(* and the three read queries.                                             *)
(***************************************************************************)
\* Bounds: the rows appended on top of the table the run starts with, and
\* the days the clock runs.
MaxAppends == 2
MaxDays    == 10

\* The clock moves on by 3 or by 7 days.
DaySteps == {3, 7}

\* Two attack verdicts to log: at the high-confidence threshold, and just below.
AtThreshold ==
    analyze(Return(Text(<<Json(JObj([attack |-> JBool(TRUE), type |-> JStr("jailbreak"),
                                     confidence |-> JNum(8000), reason |-> JStr("r")]))>>))).val

BelowThreshold ==
    analyze(Return(Text(<<Json(JObj([attack |-> JBool(TRUE), type |-> JStr("prompt_injection"),
                                     confidence |-> JNum(7999), reason |-> JStr("r")]))>>))).val

StoreVerdicts == {AtThreshold, BelowThreshold}

StorePrompts == {p \in Prompts : ValidPrompt(p)}

\* The table after check_prompt has logged verdict v for `prompt` at time t.
AppendRow(rows, prompt, v, t) ==
    log_attack(rows, create_log_entry(prompt, v, t), t, FALSE).val

\* A table to start from: four records of one prompt and two of another,
\* logged one after the other at time 0.
RECURSIVE Seeded(_)
Seeded(n) ==
    IF n = 0 THEN <<>>
    ELSE AppendRow(Seeded(n - 1),
                   IF n \in {2, 5} THEN <<"h", "i">> ELSE <<"D", "A", "N">>,
                   IF n \in {1, 4} THEN AtThreshold ELSE BelowThreshold,
                   0)

FourAndTwo == Seeded(6)

\* The rows appended since the start.
Appended ==
    IF Len(attacks) >= Len(FourAndTwo) /\ SubSeq(attacks, 1, Len(FourAndTwo)) = FourAndTwo
    THEN Len(attacks) - Len(FourAndTwo)
    ELSE Len(attacks)

\* The arguments the queries are called with.
QueryDays      == {7, 14}
QueryLimits    == {-1, 0, 1, 2, 100}
QueryMinCounts == {1, 3}

InitStore ==
    /\ ParseIdle
    /\ backend = "memory" /\ max_size = 0 /\ cache_ttl = 0 /\ cache = <<>> /\ redis = <<>>
    /\ lastSet = None /\ lastGet = None
    /\ now = 0
    /\ pc = <<>> /\ req = <<>> /\ api_key = None /\ client = None
    /\ attacks \in {<<>>, FourAndTwo}
    /\ reply = None

\* check_prompt, lines 146-147: create_log_entry, then storage.log_attack.
StoreAppend(prompt, v) ==
    /\ Appended < MaxAppends
    /\ \E fail \in BOOLEAN :
          attacks' = log_attack(attacks, create_log_entry(prompt, v, now), now, fail).val
    /\ reply' = None
    /\ UNCHANGED <<now, pc, req, api_key, client, backend, max_size, cache_ttl, cache, redis,
                   lastSet, lastGet, parseVars>>

\* Days pass.
StoreTick(d) ==
    /\ now + d * SecondsPerDay <= MaxDays * SecondsPerDay
    /\ now' = now + d * SecondsPerDay
    /\ reply' = None
    /\ UNCHANGED <<attacks, pc, req, api_key, client, backend, max_size, cache_ttl, cache,
                   redis, lastSet, lastGet, parseVars>>

\* A query is made; the table is left as it is.  One query is watched at a
\* time: a query does not depend on the one before it, so every table, time
\* and reply is still reached.
Query(call, ret) ==
    /\ reply = None
    /\ reply' = [call |-> call, ret |-> ret]
    /\ UNCHANGED <<attacks, now, pc, req, api_key, client, backend, max_size, cache_ttl,
                   cache, redis, lastSet, lastGet, parseVars>>

\* storage.get_stats(days)
StoreStats(days) ==
    \E fail \in BOOLEAN :
        Query([op |-> "stats", days |-> days], get_stats(attacks, days, now, fail))

\* storage.get_recent_attacks(limit)
StoreRecent(limit) ==
    \E fail \in BOOLEAN, tie \in TieOrders :
        Query([op |-> "recent", limit |-> limit],
              get_recent_attacks(attacks, limit, tie, fail))

\* storage.get_repeat_offenders(min_count, days)
StoreOffenders(min_count, days) ==
    \E fail \in BOOLEAN, tie \in TieOrders :
        Query([op |-> "offenders", min_count |-> min_count, days |-> days],
              get_repeat_offenders(attacks, min_count, days, now, tie, fail))

NextStore ==
    \/ \E prompt \in StorePrompts, v \in StoreVerdicts : StoreAppend(prompt, v)
    \/ \E d \in DaySteps : StoreTick(d)
    \/ \E days \in QueryDays : StoreStats(days)
    \/ \E limit \in QueryLimits : StoreRecent(limit)
    \/ \E min_count \in QueryMinCounts, days \in QueryDays : StoreOffenders(min_count, days)

SpecStore == InitStore /\ [][NextStore]_vars

(***************************************************************************)
(* The queries of the attack store.                                        *)
(***************************************************************************)
\* The age of row i in whole seconds.
Age(i) == now - attacks[i].timestamp

\* The rows no older than `days` days.
NoOlderThan(days) == {i \in 1..Len(attacks) : Age(i) <= days * SecondsPerDay}

\* A query of kind `op` has answered without an error.
Answered(op) ==
    /\ ~IsNone(reply)
    /\ reply.call.op = op
    /\ ~IsExc(reply.ret)

\* C15: stats(window_days) counts exactly the records with timestamp >=
\* now - window_days: total_attacks is their number, high_confidence_attacks
\* the number of them with confidence >= 0.8, and the counts by category hold
\* one entry per category present among them, with its count; so a record
\* aged 10 days is left out of stats(7) and counted by stats(14).
Thm_C15 ==
    Answered("stats") =>
        LET win   == NoOlderThan(reply.call.days)
            stats == reply.ret.val
        IN  /\ stats.period_days = reply.call.days
            /\ stats.total_attacks = Cardinality(win)
            /\ stats.high_confidence_attacks =
                   Cardinality({i \in win : attacks[i].confidence >= 8000})
            /\ DOMAIN stats.by_type = {attacks[i].attack_type : i \in win}
            /\ \A ty \in DOMAIN stats.by_type :
                   stats.by_type[ty] =
                       Cardinality({i \in win : attacks[i].attack_type = ty})
            /\ \A i \in 1..Len(attacks) :
                   Age(i) = 10 * SecondsPerDay =>
                       /\ reply.call.days = 7  => i \notin win
                       /\ reply.call.days = 14 => i \in win

\* stats(7) has answered over a table holding records aged exactly 10 days,
\* a record aged exactly 7 days and a fresh one: it counts the last two.
Wit_C15 ==
    /\ Answered("stats")
    /\ reply.call.days = 7
    /\ \E i, j, k \in 1..Len(attacks) :
          /\ Age(i) = 10 * SecondsPerDay
          /\ Age(j) = 7 * SecondsPerDay
          /\ Age(k) = 0
    /\ reply.ret.val.total_attacks = 2

\* The records of fingerprint h no older than `days` days.
InWindowOf(h, days) == {i \in NoOlderThan(days) : attacks[i].prompt_hash = h}

\* The greatest of a non-empty set of numbers.
Greatest(S) == CHOOSE x \in S : \A y \in S : y <= x

\* C16: repeat_offenders(min_count, window_days) returns exactly one group
\* per fingerprint whose number of records inside the window is >= min_count,
\* each with that count and the greatest confidence of those records, the
\* groups ordered by count descending.
Thm_C16 ==
    Answered("offenders") =>
        LET groups == reply.ret.val
            days   == reply.call.days
            repeat == {h \in {attacks[i].prompt_hash : i \in NoOlderThan(days)} :
                          Cardinality(InWindowOf(h, days)) >= reply.call.min_count}
        IN  /\ {groups[k].prompt_hash : k \in 1..Len(groups)} = repeat
            /\ Len(groups) = Cardinality(repeat)
            /\ \A k \in 1..Len(groups) :
                   LET mine == InWindowOf(groups[k].prompt_hash, days)
                   IN  /\ groups[k].count = Cardinality(mine)
                       /\ groups[k].max_confidence =
                              Greatest({attacks[i].confidence : i \in mine})
            /\ \A k \in 1..(Len(groups) - 1) : groups[k].count >= groups[k + 1].count

\* repeat_offenders(3, 7) has answered over four records of one fingerprint
\* and two of another, all in the window: one group, with count 4.
Wit_C16 ==
    /\ Answered("offenders")
    /\ reply.call.min_count = 3 /\ reply.call.days = 7
    /\ attacks = FourAndTwo
    /\ NoOlderThan(7) = 1..Len(attacks)
    /\ Len(reply.ret.val) = 1
    /\ reply.ret.val[1].count = 4
    /\ reply.ret.val[1].prompt_hash = hash_prompt(<<"D", "A", "N">>)

\* How many times x occurs in the sequence seq.
Occurrences(seq, x) == Cardinality({k \in 1..Len(seq) : seq[k] = x})

\* `recs` are n records of the store with the greatest timestamps, newest
\* first: they are the rows at some n indices, none older than a row left out.
NewestOf(recs, n) ==
    /\ Len(recs) = n
    /\ \A k \in 1..(Len(recs) - 1) : recs[k].timestamp >= recs[k + 1].timestamp
    /\ \E I \in SUBSET (1..Len(attacks)) :
          /\ Cardinality(I) = n
          /\ \A k \in 1..Len(recs) :
                Occurrences(recs, recs[k]) =
                    Cardinality({i \in I : attacks[i] = recs[k]})
          /\ \A i \in I, j \in (1..Len(attacks)) \ I :
                attacks[i].timestamp >= attacks[j].timestamp

\* The smaller of two numbers.
Min(a, b) == IF a <= b THEN a ELSE b

\* C17 as stated: recent(limit) returns at most limit records, namely the
\* limit records (all of them when the store holds fewer) with the greatest
\* timestamps in the store, ordered newest first.
Cex_C17 ==
    Answered("recent") =>
        /\ Len(reply.ret.val) <= reply.call.limit
        /\ NewestOf(reply.ret.val, Min(reply.call.limit, Len(attacks)))

\* C17, amended: for limit >= 0, recent(limit) returns the min(limit, N)
\* records with the greatest timestamps of the N in the store, newest first;
\* for a negative limit it returns all N records, newest first.
Thm_C17 ==
    Answered("recent") =>
        IF reply.call.limit >= 0
        THEN NewestOf(reply.ret.val, Min(reply.call.limit, Len(attacks)))
        ELSE NewestOf(reply.ret.val, Len(attacks))

\* recent(2) has answered over a store of more than two records written at
\* three different times: the two newest, the newer one first.
Wit_C17 ==
    /\ Answered("recent")
    /\ reply.call.limit = 2
    /\ Cardinality({attacks[i].timestamp : i \in 1..Len(attacks)}) = 3
    /\ Len(reply.ret.val) = 2
    /\ reply.ret.val[1].timestamp > reply.ret.val[2].timestamp
    /\ reply.ret.val[1].timestamp = now

(***************************************************************************)
(* SpecClient: client.py, PromptShield.check in local mode (no api_url):   *)
(* check -> _check_local -> detector.analyze, with its own PromptDetector  *)
(* and neither cache nor attack store.                                     *)
(***************************************************************************)
InitClient ==
    /\ ParseIdle
    /\ CacheIdle
    /\ pc = <<>> /\ req = <<>> /\ attacks = <<>> /\ api_key = None /\ reply = None
    /\ \E prompt \in Prompts :
          client = [prompt |-> prompt, stage |-> "idle", oracle |-> None, result |-> None]

\* PromptShield.check, lines 86-89 and 103: local mode goes straight to
\* self._detector.analyze(prompt); the provider call is made.
ClientCheck ==
    /\ client.stage = "idle"
    /\ client' = [client EXCEPT !.stage = "analyze"]
    /\ UNCHANGED <<pc, req, attacks, api_key, reply, cacheVars, parseVars>>

\* The provider call ends and analyze returns; check returns its result.
ClientReturn ==
    /\ client.stage = "analyze"
    /\ \E o \in OracleOutcomes :
          client' = [client EXCEPT !.stage = "done", !.oracle = o, !.result = analyze(o)]
    /\ UNCHANGED <<pc, req, attacks, api_key, reply, cacheVars, parseVars>>

NextClient == ClientCheck \/ ClientReturn

SpecClient == InitClient /\ [][NextClient]_vars

(* C13: a call of the check operation with empty text or text above the
   maximum length ends in a validation error, and no oracle call (nor cache
   lookup, cache write or log append) takes place. *)
Cex_C13 ==
    (~ValidPrompt(client.prompt) /\ client.stage # "idle") =>
        client.stage = "invalid" /\ IsNone(client.oracle)

(***************************************************************************)
(* SpecHash: detector.py, hash_prompt as a function of its text.  A text   *)
(* is fixed, and hash_prompt is called on it again and again: by           *)
(* check_prompt for the cache key (api.py, line 129) and by                *)
(* create_log_entry for the record's fingerprint.                          *)
(***************************************************************************)
MaxCalls == 3

\* The texts: the prompts of the pipeline and two holding a lone surrogate.
Texts == Prompts \cup {<<"U+D800">>, <<"h", "U+DFFF">>}

InitHash ==
    /\ ParseIdle
    /\ backend = "memory" /\ max_size = 0 /\ cache_ttl = 0 /\ cache = <<>> /\ redis = <<>>
    /\ lastSet = None /\ lastGet = None
    /\ now = 0
    /\ pc = <<>> /\ req = <<>> /\ attacks = <<>> /\ api_key = None /\ client = None
    /\ \E text \in Texts : reply = [text |-> text, calls |-> <<>>]

\* One more call on the text is made and its outcome kept.
HashCall(op, ret) ==
    /\ Len(reply.calls) < MaxCalls
    /\ reply' = [reply EXCEPT !.calls = Append(@, [op |-> op, ret |-> ret])]
    /\ UNCHANGED <<outcome, parsed, analyzed, cacheVars, pc, req, attacks, api_key, client>>

\* prompt_hash = PromptDetector.hash_prompt(request.prompt): the cache key.
CacheKey == HashCall("key", hash_prompt_call(reply.text))

\* PromptDetector.create_log_entry(request.prompt, result)
LogEntry(v) == HashCall("log", create_log_entry_call(reply.text, v, now))

NextHash ==
    \/ CacheKey
    \/ \E v \in StoreVerdicts : LogEntry(v)

SpecHash == InitHash /\ [][NextHash]_vars

\* The fingerprint a call has produced.
Fingerprint(call) ==
    IF call.op = "key" THEN call.ret.val ELSE call.ret.val.prompt_hash

\* C20: the fingerprint is a pure, total, deterministic function of the
\* text: for every string, the empty one included, every call returns (none
\* fails) the same value of the fixed width, and the fingerprint stored in
\* an attack log record equals the cache key of the same text.
Cex_C20 ==
    /\ \A k \in 1..Len(reply.calls) :
          /\ ~IsExc(reply.calls[k].ret)
          /\ Len(Fingerprint(reply.calls[k])) = HashLen
    /\ \A k, m \in 1..Len(reply.calls) :
          (~IsExc(reply.calls[k].ret) /\ ~IsExc(reply.calls[m].ret)) =>
              Fingerprint(reply.calls[k]) = Fingerprint(reply.calls[m])

(***************************************************************************)
(* SpecLoop: api.py, check_prompt as coroutines on one event loop thread   *)
(* (uvicorn.run with one worker).  A step of a request is the code it runs *)
(* between two points where it gives the thread back.  `reply` says which  *)
(* request holds the thread inside a call that does not give it back; all  *)
(* requests carry the same text, and `cache` holds its entry once written. *)
(***************************************************************************)
\* The stages in which a request waits for something outside the process.
IoStages == {"cache_get_io", "oracle_io", "cache_set_io", "log_io"}

\* No call is holding the event loop thread.
LoopFree == IsNone(reply)

InitLoop ==
    /\ ParseIdle
    /\ backend \in {"memory", "redis"}
    /\ max_size = 0 /\ cache_ttl = 0 /\ cache = <<>> /\ redis = <<>>
    /\ lastSet = None /\ lastGet = None
    /\ now = 0
    /\ pc = [r \in Requests |-> "idle"]
    /\ req = [r \in Requests |-> [attack |-> FALSE]]
    /\ attacks = <<>>
    /\ api_key = None /\ client = None
    /\ reply = None

LoopFrame == UNCHANGED <<parseVars, backend, max_size, cache_ttl, redis, now, lastSet,
                         lastGet, api_key, client>>

\* Line 123: the request arrives and its task is created.
LoopArrive(r) ==
    /\ LoopFree /\ pc[r] = "idle"
    /\ pc' = [pc EXCEPT ![r] = "cache_get"]
    /\ UNCHANGED <<req, cache, attacks, reply>> /\ LoopFrame

\* Where line 133 leaves the request once cache.get has returned.
AfterGet == IF cache # <<>> THEN "done" ELSE "analyze"

\* Line 133, await cache.get: RedisCache.get awaits client.get and gives the
\* thread back; InMemoryCache.get has no await in it and returns at once.
GetStart(r) ==
    /\ LoopFree /\ pc[r] = "cache_get"
    /\ pc' = [pc EXCEPT ![r] = IF backend = "redis" THEN "cache_get_io" ELSE AfterGet]
    /\ UNCHANGED <<req, cache, attacks, reply>> /\ LoopFrame

\* Redis has answered the get; the task goes on when the thread is free.
GetResume(r) ==
    /\ LoopFree /\ pc[r] = "cache_get_io"
    /\ pc' = [pc EXCEPT ![r] = AfterGet]
    /\ UNCHANGED <<req, cache, attacks, reply>> /\ LoopFrame

\* Line 139, await detector.analyze: the provider call runs in the default
\* executor (run_in_executor), and the task gives the thread back.
OracleStart(r) ==
    /\ LoopFree /\ pc[r] = "analyze"
    /\ pc' = [pc EXCEPT ![r] = "oracle_io"]
    /\ UNCHANGED <<req, cache, attacks, reply>> /\ LoopFrame

\* The executor's future is done; the verdict says attack or not.
OracleResume(r, attack) ==
    /\ LoopFree /\ pc[r] = "oracle_io"
    /\ pc' = [pc EXCEPT ![r] = "cache_set"]
    /\ req' = [req EXCEPT ![r].attack = attack]
    /\ UNCHANGED <<cache, attacks, reply>> /\ LoopFrame

\* Line 142, await cache.set: RedisCache.set awaits client.setex;
\* InMemoryCache.set writes its dict and returns at once.
SetStart(r) ==
    /\ LoopFree /\ pc[r] = "cache_set"
    /\ IF backend = "redis"
       THEN pc' = [pc EXCEPT ![r] = "cache_set_io"] /\ UNCHANGED cache
       ELSE pc' = [pc EXCEPT ![r] = "log"] /\ cache' = <<req[r].attack>>
    /\ UNCHANGED <<req, attacks, reply>> /\ LoopFrame

\* Redis has answered the setex.
SetResume(r) ==
    /\ LoopFree /\ pc[r] = "cache_set_io"
    /\ pc' = [pc EXCEPT ![r] = "log"]
    /\ cache' = <<req[r].attack>>
    /\ UNCHANGED <<req, attacks, reply>> /\ LoopFrame

\* Lines 145-147: storage.log_attack is a plain def that opens sqlite3,
\* inserts and commits on the event loop thread: the request keeps the
\* thread while the database works.  Without an attack the handler returns.
LogStart(r) ==
    /\ LoopFree /\ pc[r] = "log"
    /\ IF req[r].attack
       THEN pc' = [pc EXCEPT ![r] = "log_io"] /\ reply' = [holder |-> r]
       ELSE pc' = [pc EXCEPT ![r] = "done"] /\ UNCHANGED reply
    /\ UNCHANGED <<req, cache, attacks>> /\ LoopFrame

\* log_attack returns (the row written, or the error swallowed); line 153
\* returns the response and the thread is given back.
LogReturn(r) ==
    /\ pc[r] = "log_io" /\ reply = [holder |-> r]
    /\ pc' = [pc EXCEPT ![r] = "done"]
    /\ \E fail \in BOOLEAN : attacks' = IF fail THEN attacks ELSE Append(attacks, r)
    /\ reply' = None
    /\ UNCHANGED <<req, cache>> /\ LoopFrame

\* The next step of request r, whichever it is.
LoopStep(r) ==
    \/ LoopArrive(r)
    \/ GetStart(r)
    \/ GetResume(r)
    \/ OracleStart(r)
    \/ \E attack \in BOOLEAN : OracleResume(r, attack)
    \/ SetStart(r)
    \/ SetResume(r)
    \/ LogStart(r)
    \/ LogReturn(r)

NextLoop == \E r \in Requests : LoopStep(r)

SpecLoop == InitLoop /\ [][NextLoop]_vars

\* C24: cache backend I/O, the oracle call and the attack-store write are
\* suspension points: while a request is waiting in one of them, every other
\* request that is not finished can take its next step.
Cex_C24 ==
    \A r, q \in Requests :
        (r # q /\ pc[r] \in IoStages /\ pc[q] # "done") => ENABLED LoopStep(q)

====
